---- MODULE Spec2Model ----
(***************************************************************************)
(* Battle ingestion and the item cache of Bot_Reequipos_Linhir.            *)
(*                                                                         *)
(* The scan part models tasks/monitor.py (Monitor.check_new_battles,       *)
(* process_guild, process_battle, send_battle_notification) over the       *)
(* tables of database.py.  Every coroutine runs on one asyncio event loop: *)
(* `running` names the coroutine that holds the loop.  A step that ends at *)
(* an awaited remote call (albion_api.get_battles, get_battle_events,      *)
(* bot.fetch_channel, channel.send) gives the loop up; the calls of        *)
(* database.py are blocking mysql.connector calls and keep it.             *)
(***************************************************************************)
EXTENDS Integers, Sequences, FiniteSets, TLC

VARIABLES
    batallas,        \* table batallas: sequence of rows, row id = position
    muertes,         \* table muertes
    items_perdidos,  \* table items_perdidos
    running,         \* the coroutine holding the event loop, or NoTask
    mon,             \* per Monitor instance: the position and locals of its tick
    failures,        \* persistence failures injected so far
    invocations,     \* battle id -> number of process_battle invocations
    finished,        \* one record per process_battle invocation that returned
    notified,        \* send_battle_notification invocations, in order
    sent,            \* notifications the channel accepted, in order
    item_cache,      \* albion_api.item_cache: item type -> entry, or NoEntry
    now,             \* the wall clock datetime.now() reads, in hours
    call,            \* per report callback: its get_item_data call
    lookups,         \* get_item_data calls begun so far
    advances,        \* clock moves so far
    lastMiss,        \* item type -> latest stamp of a lookup that got not found
    quietMiss,       \* item type -> stamp of the last not-found result stored
                     \* while no other lookup of the type was in flight
    arg,             \* the argument a function under study is called with
    ret,             \* what the function returned, or NotCalled
    res,             \* per report callback: its _get_item_name call
    rep,             \* per report callback: its position and locals
    view             \* per report callback: the PaginatedReportView it sent

scanVars == <<batallas, muertes, items_perdidos, running, mon, failures,
              invocations, finished, notified, sent>>

cacheVars == <<item_cache, now, call, lookups, advances, lastMiss, quietMiss>>

reportVars == <<arg, ret, res, rep, view>>

vars == <<scanVars, cacheVars, reportVars>>

(***************************************************************************)
(* Bounds                                                                  *)
(***************************************************************************)
MaxTicks == 2       \* ticks one Monitor runs, one after the other
MaxFailures == 1    \* persistence calls that raise in one behaviour
MaxAdvances == 2    \* times the clock moves in one behaviour
MaxLookups == 3     \* get_item_data calls in one behaviour

NoTask == "none"
Monitors == {"m1", "m2"}

(***************************************************************************)
(* The world outside the program: the registered guilds and what the       *)
(* remote API can answer.                                                  *)
(***************************************************************************)
\* rows of table gremios with activo = TRUE; "G2" has no report channel
GREMIOS ==
    << [albion_guild_id |-> "G1", nombre_gremio |-> "Linhir", canal_reportes_batalla |-> "c1"],
       [albion_guild_id |-> "G2", nombre_gremio |-> "Otros", canal_reportes_batalla |-> ""] >>

BattleIds == {1, 2}

\* an equipment snapshot as the JSON value it is: null, a string or an object
Null == [kind |-> "null"]
Str(s) == [kind |-> "str", s |-> s]
Obj(d) == [kind |-> "dict", d |-> d]

\* the event log of each battle, as GET /events/battle/{id} returns it
EventLog(b) ==
    IF b = 1
    THEN << [Victim |-> [Id |-> "p1", Name |-> "Bob", GuildId |-> "G1",
                        Equipment |-> << <<"MainHand", Obj([Type |-> "T4_SWORD", Quality |-> 1, Count |-> 1])>>,
                                         <<"OffHand", Null>>,
                                         <<"Head", Obj([Type |-> "T4_HEAD"])>> >>]],
            [TimeStamp |-> "t"],
            [Victim |-> [Id |-> "p9", Name |-> "Zed", GuildId |-> "G3",
                        Equipment |-> << <<"MainHand", Obj([Type |-> "T5_BOW"])>> >>]],
            [Victim |-> [Id |-> "p3", Name |-> "Ann", GuildId |-> "G1"]],
            [Victim |-> [Id |-> "p4", Name |-> "Dan", GuildId |-> "G2"]] >>
    ELSE << [Victim |-> [Id |-> "p2", Name |-> "Eve", GuildId |-> "G2",
                        Equipment |-> << <<"Armor", Str("corrupt")>>,
                                         <<"Bag", Obj([Type |-> "", Count |-> 3])>>,
                                         <<"Cape", Obj([Type |-> "T4_CAPE@1", Count |-> 2])>> >>]] >>

\* a battle summary of GET /battles; Malformed lacks the id
Battle(b) == [id |-> b, totalKills |-> 3]
Malformed == [totalKills |-> 0]

\* the pages GET /battles can answer with
RemotePages ==
    { <<Battle(1)>>, <<Battle(1), Battle(1)>>, <<Battle(2), Battle(1)>>,
      <<Malformed, Battle(2)>> }

\* fetch_json's result: the JSON body on status 200, None otherwise
None == [some |-> FALSE, json |-> <<>>]
Some(body) == [some |-> TRUE, json |-> body]
FetchJson(status, body) == IF status = 200 THEN Some(body) ELSE None

Statuses == {200, 404, 500}

\* Python truthiness of an Optional[list]
Truthy(r) == r.some /\ r.json # <<>>

\* dict.get(key, default)
Get(d, key, default) == IF key \in DOMAIN d THEN d[key] ELSE default


(***************************************************************************)
(* Persistence gateway (database.py)                                       *)
(***************************************************************************)
\* a persistence call either returns or raises (connection lost, SQL error)
DbRaises == IF failures < MaxFailures THEN {FALSE, TRUE} ELSE {FALSE}

Raised(f) == IF f THEN failures + 1 ELSE failures

\* SELECT id FROM batallas WHERE battle_id = %s; result is not None
batalla_ya_procesada_always_new(battle_id) == FALSE
batalla_ya_procesada(battle_id) ==
    \E k \in 1..Len(batallas) : batallas[k].battle_id = battle_id

\* INSERT INTO batallas (...): the table gets one more row
registrar_batalla_no_row(battle_id) == batallas
registrar_batalla(battle_id) ==
    Append(batallas, [battle_id |-> battle_id])

\* INSERT INTO muertes (...); cursor.lastrowid is the new row's id
registrar_muerte(battle_id, event_index, player_albion_id, player_name, guild_id_albion) ==
    Append(muertes, [id |-> Len(muertes) + 1, battle_id |-> battle_id,
                     event_index |-> event_index, player_albion_id |-> player_albion_id,
                     player_name |-> player_name, guild_id_albion |-> guild_id_albion])

\* INSERT INTO items_perdidos (...)
registrar_item(muerte_id, slot, item_type, calidad, cantidad) ==
    Append(items_perdidos, [muerte_id |-> muerte_id, slot |-> slot, item_type |-> item_type,
                            calidad |-> calidad, cantidad |-> cantidad])

(***************************************************************************)
(* The event loop                                                          *)
(***************************************************************************)
\* a coroutine runs when it holds the loop or when nobody does
CanRun(m) == running = m \/ running = NoTask

\* who holds the loop after a blocking database call made by m: m itself,
\* since mysql.connector calls never yield to the loop
ReleaseLoop(m) == NoTask
HoldLoop(m) == m

(***************************************************************************)
(* Monitor                                                                 *)
(***************************************************************************)
\* ticks left once one has started; Forever stays Forever
Forever == 0 - 1
TicksAfter(n) == IF n = Forever THEN Forever ELSE n - 1

Idle(n) ==
    [pc |-> "idle", ticksLeft |-> n, listed |-> FALSE, g |-> 0, page |-> <<>>, i |-> 0,
     events |-> <<>>, idx |-> 0, muertes_gremio |-> 0, muerte_id |-> 0, slot |-> 0,
     gotEvents |-> FALSE, dispatched |-> FALSE,
     visited |-> {}, fetched |-> {}, reached |-> {}]

Config(l) == GREMIOS[l.g]
CurBattle(l) == l.page[l.i]
CurEvent(l) == l.events[l.idx + 1]
Equipment(l) == Get(CurEvent(l).Victim, "Equipment", <<>>)

\* check_new_battles moves on to the next guild, or the tick ends
NextGuild(l) ==
    IF l.g < Len(GREMIOS)
    THEN [l EXCEPT !.g = l.g + 1, !.pc = "await_battles", !.page = <<>>, !.i = 0,
                   !.visited = l.visited \cup {l.g + 1}]
    ELSE [l EXCEPT !.pc = "idle", !.g = 0, !.page = <<>>, !.i = 0]

\* process_battle returned (normally or through its except): back in the
\* for loop of process_guild, at the next battle
NextBattle_ends_loop(l) == NextGuild(l)
NextBattle(l) ==
    [l EXCEPT !.pc = "loop", !.i = l.i + 1, !.events = <<>>, !.idx = 0,
              !.muertes_gremio = 0, !.muerte_id = 0, !.slot = 0,
              !.gotEvents = FALSE, !.dispatched = FALSE]

\* what one process_battle invocation did, recorded when it returns
Outcome(l, completed) ==
    [battle_id |-> CurBattle(l).id, guild |-> Config(l).albion_guild_id,
     gotEvents |-> l.gotEvents, completed |-> completed, dispatched |-> l.dispatched,
     muertes_gremio |-> l.muertes_gremio]

\* the tick starts: obtener_gremios_activos, then process_guild of the first
\* guild up to its await of get_battles
StartTick(m) ==
    /\ running = NoTask
    /\ mon[m].pc = "idle"
    /\ mon[m].ticksLeft # 0
    /\ \E f \in DbRaises :
        /\ failures' = Raised(f)
        /\ mon' = [mon EXCEPT ![m] =
              IF f
              THEN Idle(TicksAfter(mon[m].ticksLeft))
              ELSE NextGuild([Idle(TicksAfter(mon[m].ticksLeft)) EXCEPT !.listed = TRUE])]
    /\ running' = NoTask
    /\ UNCHANGED <<batallas, muertes, items_perdidos, invocations, finished, notified, sent>>
    /\ UNCHANGED cacheVars
    /\ UNCHANGED reportVars

\* get_battles answers: `if not battles: return`, else the for loop starts
RecvBattles(m) ==
    /\ CanRun(m)
    /\ mon[m].pc = "await_battles"
    /\ \E status \in Statuses, body \in RemotePages \cup {<<>>} :
        LET battles == FetchJson(status, body)
            l == mon[m]
        IN  IF ~Truthy(battles)
            THEN /\ mon' = [mon EXCEPT ![m] = NextGuild(l)]
                 /\ running' = NoTask
            ELSE /\ mon' = [mon EXCEPT ![m] =
                        [l EXCEPT !.pc = "loop", !.page = battles.json, !.i = 1,
                                  !.fetched = l.fetched \cup {<<l.g, Len(battles.json)>>}]]
                 /\ running' = m
    /\ UNCHANGED <<batallas, muertes, items_perdidos, failures, invocations, finished,
                   notified, sent>>
    /\ UNCHANGED cacheVars
    /\ UNCHANGED reportVars

\* one iteration of `for battle in battles`: battle['id'], the
\* batalla_ya_procesada check, `continue` or the call of process_battle
LoopBattle(m) ==
    /\ CanRun(m)
    /\ mon[m].pc = "loop"
    /\ LET l == mon[m]
       IN  IF l.i > Len(l.page)
           THEN /\ mon' = [mon EXCEPT ![m] = NextGuild(l)]
                /\ running' = NoTask
                /\ UNCHANGED failures
           ELSE LET r == [l EXCEPT !.reached = l.reached \cup {<<l.g, l.i>>}]
                IN  IF "id" \notin DOMAIN CurBattle(l)
                    THEN \* KeyError, caught by process_guild's except
                         /\ mon' = [mon EXCEPT ![m] = NextGuild(r)]
                         /\ running' = NoTask
                         /\ UNCHANGED failures
                    ELSE \E f \in DbRaises :
                         /\ failures' = Raised(f)
                         /\ IF f
                            THEN /\ mon' = [mon EXCEPT ![m] = NextGuild(r)]
                                 /\ running' = NoTask
                            ELSE IF batalla_ya_procesada(CurBattle(l).id)
                            THEN /\ mon' = [mon EXCEPT ![m] = [r EXCEPT !.i = l.i + 1]]
                                 /\ running' = m
                            ELSE /\ mon' = [mon EXCEPT ![m] = [r EXCEPT !.pc = "process_battle"]]
                                 /\ running' = HoldLoop(m)
    /\ UNCHANGED <<batallas, muertes, items_perdidos, invocations, finished, notified, sent>>
    /\ UNCHANGED cacheVars
    /\ UNCHANGED reportVars

\* process_battle up to its await of get_battle_events: registrar_batalla
ProcessBattle(m) ==
    /\ CanRun(m)
    /\ mon[m].pc = "process_battle"
    /\ LET l == mon[m]
           b == CurBattle(l).id
       IN  /\ invocations' = [invocations EXCEPT ![b] = @ + 1]
           /\ \E f \in DbRaises :
               /\ failures' = Raised(f)
               /\ IF f
                  THEN /\ finished' = finished \cup {Outcome(l, FALSE)}
                       /\ mon' = [mon EXCEPT ![m] = NextBattle(l)]
                       /\ running' = m
                       /\ UNCHANGED batallas
                  ELSE /\ batallas' = registrar_batalla(b)
                       /\ mon' = [mon EXCEPT ![m] = [l EXCEPT !.pc = "await_events"]]
                       /\ running' = NoTask
                       /\ UNCHANGED finished
    /\ UNCHANGED <<muertes, items_perdidos, notified, sent>>
    /\ UNCHANGED cacheVars
    /\ UNCHANGED reportVars

\* get_battle_events answers: `if not events: return`, else the event loop
RecvEvents(m) ==
    /\ CanRun(m)
    /\ mon[m].pc = "await_events"
    /\ \E status \in Statuses, empty \in BOOLEAN :
        LET l == mon[m]
            events == FetchJson(status, IF empty THEN <<>> ELSE EventLog(CurBattle(l).id))
        IN  IF ~Truthy(events)
            THEN /\ finished' = finished \cup {Outcome(l, TRUE)}
                 /\ mon' = [mon EXCEPT ![m] = NextBattle(l)]
            ELSE /\ mon' = [mon EXCEPT ![m] =
                        [l EXCEPT !.pc = "events", !.events = events.json, !.idx = 0,
                                  !.muertes_gremio = 0, !.gotEvents = TRUE]]
                 /\ UNCHANGED finished
    /\ running' = m
    /\ UNCHANGED <<batallas, muertes, items_perdidos, failures, invocations, notified, sent>>
    /\ UNCHANGED cacheVars
    /\ UNCHANGED reportVars

\* the guild-relevance test of process_battle: the event has a Victim whose
\* GuildId is the guild's albion_guild_id
IsGuildDeath_any_victim(event, guild_config) == "Victim" \in DOMAIN event
IsGuildDeath(event, guild_config) ==
    /\ "Victim" \in DOMAIN event
    /\ Get(event.Victim, "GuildId", "") = guild_config.albion_guild_id

\* `if muertes_gremio > 0`
ShouldNotify_always(muertes_gremio) == TRUE
ShouldNotify(muertes_gremio) == muertes_gremio > 0

\* the index enumerate(events) gives the event under process
EventIndex_constant(l) == 0
EventIndex(l) == l.idx

\* one iteration of `for idx, event in enumerate(events)` up to the equipment
\* loop, or, after the last event, the decision to notify
ProcessEvent(m) ==
    /\ CanRun(m)
    /\ mon[m].pc = "events"
    /\ LET l == mon[m]
       IN  IF l.idx >= Len(l.events)
           THEN /\ UNCHANGED <<muertes, failures>>
                /\ IF ShouldNotify(l.muertes_gremio)
                   THEN \* send_battle_notification is entered
                        /\ notified' = Append(notified,
                              [battle_id |-> CurBattle(l).id, num_muertes |-> l.muertes_gremio,
                               guild |-> Config(l).albion_guild_id])
                        /\ IF Config(l).canal_reportes_batalla = ""
                           THEN /\ finished' = finished \cup
                                      {Outcome([l EXCEPT !.dispatched = TRUE], TRUE)}
                                /\ mon' = [mon EXCEPT ![m] = NextBattle(l)]
                                /\ running' = m
                           ELSE /\ mon' = [mon EXCEPT ![m] =
                                      [l EXCEPT !.pc = "await_channel", !.dispatched = TRUE]]
                                /\ running' = NoTask
                                /\ UNCHANGED finished
                   ELSE /\ finished' = finished \cup {Outcome(l, TRUE)}
                        /\ mon' = [mon EXCEPT ![m] = NextBattle(l)]
                        /\ running' = m
                        /\ UNCHANGED notified
           ELSE /\ UNCHANGED notified
                /\ running' = m
                /\ IF ~IsGuildDeath(CurEvent(l), Config(l))
                   THEN /\ mon' = [mon EXCEPT ![m] = [l EXCEPT !.idx = l.idx + 1]]
                        /\ UNCHANGED <<muertes, failures, finished>>
                   ELSE \E f \in DbRaises :
                        LET v == CurEvent(l).Victim
                            c == [l EXCEPT !.muertes_gremio = l.muertes_gremio + 1]
                        IN  /\ failures' = Raised(f)
                            /\ IF f
                               THEN /\ finished' = finished \cup {Outcome(c, FALSE)}
                                    /\ mon' = [mon EXCEPT ![m] = NextBattle(l)]
                                    /\ UNCHANGED muertes
                               ELSE /\ muertes' = registrar_muerte(CurBattle(l).id, EventIndex(l),
                                                     v.Id, v.Name, Config(l).albion_guild_id)
                                    /\ mon' = [mon EXCEPT ![m] =
                                          [c EXCEPT !.pc = "items", !.slot = 1,
                                                    !.muerte_id = Len(muertes) + 1]]
                                    /\ UNCHANGED finished
    /\ UNCHANGED <<batallas, items_perdidos, invocations, sent>>
    /\ UNCHANGED cacheVars
    /\ UNCHANGED reportVars

\* `if item_data and isinstance(item_data, dict)` and `if item_type`
HasItem_any_dict(item_data) == item_data.kind = "dict"
HasItem(item_data) ==
    /\ item_data.kind = "dict"
    /\ DOMAIN item_data.d # {}
    /\ Get(item_data.d, "Type", "") # ""

\* one iteration of `for slot, item_data in equipment.items()`
ProcessItem(m) ==
    /\ CanRun(m)
    /\ mon[m].pc = "items"
    /\ running' = m
    /\ LET l == mon[m]
       IN  IF l.slot > Len(Equipment(l))
           THEN /\ mon' = [mon EXCEPT ![m] =
                      [l EXCEPT !.pc = "events", !.idx = l.idx + 1, !.slot = 0, !.muerte_id = 0]]
                /\ UNCHANGED <<items_perdidos, failures, finished>>
           ELSE LET slot == Equipment(l)[l.slot][1]
                    item_data == Equipment(l)[l.slot][2]
                IN  IF ~HasItem(item_data)
                    THEN /\ mon' = [mon EXCEPT ![m] = [l EXCEPT !.slot = l.slot + 1]]
                         /\ UNCHANGED <<items_perdidos, failures, finished>>
                    ELSE \E f \in DbRaises :
                         /\ failures' = Raised(f)
                         /\ IF f
                            THEN /\ finished' = finished \cup {Outcome(l, FALSE)}
                                 /\ mon' = [mon EXCEPT ![m] = NextBattle(l)]
                                 /\ UNCHANGED items_perdidos
                            ELSE /\ items_perdidos' =
                                      registrar_item(l.muerte_id, slot, item_data.d.Type,
                                                     Get(item_data.d, "Quality", 0),
                                                     Get(item_data.d, "Count", 1))
                                 /\ mon' = [mon EXCEPT ![m] = [l EXCEPT !.slot = l.slot + 1]]
                                 /\ UNCHANGED finished
    /\ UNCHANGED <<batallas, muertes, invocations, notified, sent>>
    /\ UNCHANGED cacheVars
    /\ UNCHANGED reportVars

\* bot.fetch_channel answers: the channel, NotFound/Forbidden (caught in
\* send_battle_notification) or another error (caught in process_battle);
\* with the channel the embed is built and channel.send awaited
RecvChannel(m) ==
    /\ CanRun(m)
    /\ mon[m].pc = "await_channel"
    /\ \E answer \in {"channel", "not_found", "error"} :
        LET l == mon[m]
        IN  IF answer = "channel"
            THEN /\ mon' = [mon EXCEPT ![m] = [l EXCEPT !.pc = "await_send"]]
                 /\ running' = NoTask
                 /\ UNCHANGED finished
            ELSE /\ finished' = finished \cup {Outcome(l, TRUE)}
                 /\ mon' = [mon EXCEPT ![m] = NextBattle(l)]
                 /\ running' = m
    /\ UNCHANGED <<batallas, muertes, items_perdidos, failures, invocations, notified, sent>>
    /\ UNCHANGED cacheVars
    /\ UNCHANGED reportVars

\* channel.send answers: delivered, Forbidden or another error, all swallowed
RecvSend(m) ==
    /\ CanRun(m)
    /\ mon[m].pc = "await_send"
    /\ \E answer \in {"delivered", "forbidden", "error"} :
        LET l == mon[m]
        IN  /\ sent' = IF answer = "delivered"
                       THEN Append(sent, [battle_id |-> CurBattle(l).id,
                                          num_muertes |-> l.muertes_gremio])
                       ELSE sent
            /\ finished' = finished \cup {Outcome(l, TRUE)}
            /\ mon' = [mon EXCEPT ![m] = NextBattle(l)]
    /\ running' = m
    /\ UNCHANGED <<batallas, muertes, items_perdidos, failures, invocations, notified>>
    /\ UNCHANGED cacheVars
    /\ UNCHANGED reportVars

(***************************************************************************)
(* Item cache (albion_api.get_item_data)                                   *)
(***************************************************************************)
CACHE_DURATION == 24

ItemTypes == {"T4_SWORD", "T4_CAPE"}

\* every key item_cache can hold: the base types and the full identifiers of
\* the items the tables can hold
CatalogKeys == ItemTypes \cup {"T4_CAPE@1", "T4_CAPE@-1", "T4_HEAD"}
Callers == {"r1", "r2"}

NoEntry == [present |-> FALSE]
NoStamp == 0 - 1

\* the catalog object GET /items/{item_type}/data answers with
ItemData(item_type) == Some([uniqueName |-> item_type])

\* how far the clock moves between two steps
TimeSteps == {1, CACHE_DURATION - 1}

\* `now - entry['timestamp'] < CACHE_DURATION`
IsFresh_inclusive(entry, t) == t - entry.timestamp <= CACHE_DURATION
IsFresh(entry, t) == t - entry.timestamp < CACHE_DURATION

\* the entry get_item_data stores after the remote call: data None is stored
\* as a not_found entry, whatever made fetch_json return None
NewEntry_skip_miss(data, t) ==
    IF data.some
    THEN [present |-> TRUE, data |-> data, timestamp |-> t, not_found |-> FALSE]
    ELSE NoEntry
NewEntry(data, t) ==
    [present |-> TRUE, data |-> data, timestamp |-> t, not_found |-> ~data.some]

\* what get_item_data returns from a fresh entry
Cached(entry) == IF entry.not_found THEN None ELSE entry.data

Resting(c) == call[c].pc \in {"idle", "returned"}

\* get_item_data up to its return from the cache or its await of fetch_json
BeginLookup(c, item_type) ==
    /\ Resting(c)
    /\ lookups < MaxLookups
    /\ lookups' = lookups + 1
    /\ LET entry == item_cache[item_type]
           base == [item_type |-> item_type, now |-> now, status |-> 0,
                    afterMiss |-> lastMiss[item_type] # NoStamp
                                  /\ now - lastMiss[item_type] < CACHE_DURATION,
                    afterQuietMiss |-> quietMiss[item_type] # NoStamp
                                  /\ now - quietMiss[item_type] < CACHE_DURATION]
       IN  IF entry.present /\ IsFresh(entry, now)
           THEN /\ call' = [call EXCEPT ![c] = base @@
                      [pc |-> "returned", saw |-> "fresh", remote |-> FALSE,
                       result |-> Cached(entry)]]
                /\ UNCHANGED item_cache
           ELSE /\ call' = [call EXCEPT ![c] = base @@
                      [pc |-> "inflight", saw |-> IF entry.present THEN "stale" ELSE "absent",
                       remote |-> TRUE, result |-> None]]
                /\ item_cache' = [item_cache EXCEPT ![item_type] = NoEntry]
    /\ UNCHANGED <<now, advances, lastMiss, quietMiss>>
    /\ UNCHANGED scanVars
    /\ UNCHANGED reportVars

\* fetch_json answers and get_item_data stores what it got
CompleteLookup(c) ==
    /\ call[c].pc = "inflight"
    /\ \E status \in Statuses :
        LET item_type == call[c].item_type
            data == FetchJson(status, ItemData(item_type).json)
            alone == \A o \in Callers \ {c} :
                        ~(call[o].pc = "inflight" /\ call[o].item_type = item_type)
        IN  /\ item_cache' = [item_cache EXCEPT ![item_type] = NewEntry(data, call[c].now)]
            /\ call' = [call EXCEPT ![c] =
                  [@ EXCEPT !.pc = "returned", !.result = data, !.status = status]]
            /\ lastMiss' = [lastMiss EXCEPT ![item_type] =
                  IF status = 404 /\ call[c].now > @ THEN call[c].now ELSE @]
            /\ quietMiss' = [quietMiss EXCEPT ![item_type] =
                  IF status = 404 /\ alone THEN call[c].now ELSE NoStamp]
    /\ UNCHANGED <<now, advances, lookups>>
    /\ UNCHANGED scanVars
    /\ UNCHANGED reportVars

\* time passes
Advance ==
    /\ advances < MaxAdvances
    /\ advances' = advances + 1
    /\ \E d \in TimeSteps : now' = now + d
    /\ UNCHANGED <<item_cache, call, lookups, lastMiss, quietMiss>>
    /\ UNCHANGED scanVars
    /\ UNCHANGED reportVars

InitCache ==
    /\ item_cache = [t \in CatalogKeys |-> NoEntry]
    /\ now = 0
    /\ call = [c \in Callers |->
          [pc |-> "idle", item_type |-> "", now |-> 0, status |-> 0,
           afterMiss |-> FALSE, afterQuietMiss |-> FALSE,
           saw |-> "absent", remote |-> FALSE, result |-> None]]
    /\ lookups = 0
    /\ advances = 0
    /\ lastMiss = [t \in ItemTypes |-> NoStamp]
    /\ quietMiss = [t \in ItemTypes |-> NoStamp]

NextCache ==
    \/ \E c \in Callers, t \in ItemTypes : BeginLookup(c, t)
    \/ \E c \in Callers : CompleteLookup(c)
    \/ Advance

(***************************************************************************)
(* Text.  A str is the sequence of its characters; Join gives the str the  *)
(* program stores or shows.                                                *)
(***************************************************************************)
RECURSIVE Join(_)
Join(chars) == IF chars = <<>> THEN "" ELSE Head(chars) \o Join(Tail(chars))

\* every str over an alphabet, up to a length
Texts(alphabet, n) == UNION {[1..k -> alphabet] : k \in 0..n}

\* str.find(ch): the position of the first ch at or after `from`, 0 if none
RECURSIVE Find(_, _, _)
Find(chars, ch, from) ==
    IF from > Len(chars) THEN 0
    ELSE IF chars[from] = ch THEN from
    ELSE Find(chars, ch, from + 1)

\* str.replace(old, new) for a one-character old
RECURSIVE Replace(_, _, _)
Replace(chars, old, new) ==
    IF chars = <<>> THEN <<>>
    ELSE (IF Head(chars) = old THEN new ELSE <<Head(chars)>>) \o Replace(Tail(chars), old, new)

DigitChars == {"0", "1", "2", "3", "4", "5", "6", "7", "8", "9"}

DigitValue(ch) ==
    CASE ch = "0" -> 0 [] ch = "1" -> 1 [] ch = "2" -> 2 [] ch = "3" -> 3 [] ch = "4" -> 4
      [] ch = "5" -> 5 [] ch = "6" -> 6 [] ch = "7" -> 7 [] ch = "8" -> 8 [] ch = "9" -> 9

IsDigits(chars) == chars # <<>> /\ \A k \in 1..Len(chars) : chars[k] \in DigitChars

RECURSIVE Magnitude(_)
Magnitude(digits) ==
    IF digits = <<>> THEN 0
    ELSE 10 * Magnitude(SubSeq(digits, 1, Len(digits) - 1)) + DigitValue(digits[Len(digits)])

\* str.strip() of blanks
RECURSIVE Strip(_)
Strip(chars) ==
    IF chars # <<>> /\ Head(chars) = " " THEN Strip(Tail(chars))
    ELSE IF chars # <<>> /\ chars[Len(chars)] = " " THEN Strip(SubSeq(chars, 1, Len(chars) - 1))
    ELSE chars

\* int(text): blanks around, an optional sign, then decimal digits that single
\* underscores may group; anything else is a ValueError
Unsigned(text) ==
    LET t == Strip(text)
    IN  IF t # <<>> /\ Head(t) \in {"-", "+"} THEN Tail(t) ELSE t

IsNoUnderscore(ch) == ch # "_"

IntAccepts(text) ==
    LET body == Unsigned(text)
    IN  /\ body # <<>>
        /\ \A k \in 1..Len(body) : body[k] \in DigitChars \cup {"_"}
        /\ body[1] # "_" /\ body[Len(body)] # "_"
        /\ \A k \in 1..(Len(body) - 1) : ~(body[k] = "_" /\ body[k + 1] = "_")

IntValue(text) ==
    LET t == Strip(text)
        m == Magnitude(SelectSeq(Unsigned(text), IsNoUnderscore))
    IN  IF Head(t) = "-" THEN 0 - m ELSE m

(***************************************************************************)
(* parse_item_type (tasks/monitor.py)                                      *)
(***************************************************************************)
MaxIdent == 4       \* characters of an item identifier under study

ParseAlphabet == {"A", "@", "1", "2", "-"}

NoArg == <<>>
NotCalled == [called |-> FALSE]
Returned(value) == [called |-> TRUE, value |-> value]

\* `try: int(enchant) except ValueError: 0`
EnchantLevel(enchant) == IF IntAccepts(enchant) THEN IntValue(enchant) ELSE 0

\* where item_type.split('@', 1) cuts: at the first '@'; 0 when
\* `'@' in item_type` is false
RECURSIVE LastAt(_, _)
LastAt(item_type, k) ==
    IF k = 0 THEN 0 ELSE IF item_type[k] = "@" THEN k ELSE LastAt(item_type, k - 1)
SplitAt_last(item_type) == LastAt(item_type, Len(item_type))
SplitAt(item_type) == Find(item_type, "@", 1)

parse_item_type(item_type) ==
    LET at == SplitAt(item_type)
    IN  IF at > 0
        THEN [base |-> SubSeq(item_type, 1, at - 1),
              enchant_level |-> EnchantLevel(SubSeq(item_type, at + 1, Len(item_type)))]
        ELSE [base |-> item_type, enchant_level |-> 0]

CallParse ==
    /\ ret = NotCalled
    /\ ret' = Returned(parse_item_type(arg))
    /\ UNCHANGED <<arg, res, rep, view>>
    /\ UNCHANGED scanVars
    /\ UNCHANGED cacheVars

(***************************************************************************)
(* convertir_fecha_albion (database.py)                                    *)
(***************************************************************************)
DigitChar(d) ==
    CASE d = 0 -> "0" [] d = 1 -> "1" [] d = 2 -> "2" [] d = 3 -> "3" [] d = 4 -> "4"
      [] d = 5 -> "5" [] d = 6 -> "6" [] d = 7 -> "7" [] d = 8 -> "8" [] d = 9 -> "9"

\* the number written by the w digits at position k, NoStamp when they are
\* not all there or not all digits
Field(chars, k, w) ==
    IF k + w - 1 <= Len(chars) /\ IsDigits(SubSeq(chars, k, k + w - 1))
    THEN Magnitude(SubSeq(chars, k, k + w - 1))
    ELSE NoStamp

\* the days of month m of year y
DaysIn(y, m) ==
    IF m \in {4, 6, 9, 11} THEN 30
    ELSE IF m # 2 THEN 31
    ELSE IF (y % 4 = 0 /\ y % 100 # 0) \/ y % 400 = 0 THEN 29 ELSE 28

Rejected == [ok |-> FALSE]

\* date.fromisoformat on the first ten characters, YYYY-MM-DD
ParseDate(chars) ==
    LET y == Field(chars, 1, 4)
        m == Field(chars, 6, 2)
        d == Field(chars, 9, 2)
    IN  IF /\ Len(chars) >= 10 /\ chars[5] = "-" /\ chars[8] = "-"
           /\ y >= 1 /\ m \in 1..12 /\ d >= 1 /\ d <= DaysIn(y, m)
        THEN [ok |-> TRUE, year |-> y, month |-> m, day |-> d]
        ELSE Rejected

\* the fraction after the seconds: the parser of Python 3.11 and later takes
\* any run of digits, the earlier one exactly three or six
FractionOk(frac, lenient) ==
    /\ \A k \in 1..Len(frac) : frac[k] \in DigitChars
    /\ lenient \/ Len(frac) \in {3, 6}

\* the time part HH:MM:SS[.ffffff], before any offset
ParseTime(chars, lenient) ==
    LET h == Field(chars, 1, 2)
        m == Field(chars, 4, 2)
        sec == Field(chars, 7, 2)
    IN  IF /\ Len(chars) >= 8 /\ chars[3] = ":" /\ chars[6] = ":"
           /\ h \in 0..23 /\ m \in 0..59 /\ sec \in 0..59
           /\ Len(chars) > 8 => (chars[9] = "." /\ FractionOk(SubSeq(chars, 10, Len(chars)), lenient))
        THEN [ok |-> TRUE, hour |-> h, minute |-> m, second |-> sec]
        ELSE Rejected

\* the UTC offset after the sign, HH:MM
OffsetOk(chars) ==
    /\ Len(chars) = 5 /\ chars[3] = ":"
    /\ Field(chars, 1, 2) \in 0..23
    /\ Field(chars, 4, 2) \in 0..59

\* datetime.fromisoformat: the date, one separator character, the time and an
\* optional offset; Rejected stands for its ValueError
FromIso(chars, lenient) ==
    LET date == ParseDate(chars)
        rest == SubSeq(chars, 12, Len(chars))
        minus == Find(rest, "-", 1)
        plus == Find(rest, "+", 1)
        sign == IF minus > 0 THEN minus ELSE plus
        timestr == IF sign > 0 THEN SubSeq(rest, 1, sign - 1) ELSE rest
        time == ParseTime(timestr, lenient)
    IN  IF ~date.ok \/ Len(chars) < 12 \/ ~time.ok THEN Rejected
        ELSE IF sign > 0 /\ ~OffsetOk(SubSeq(rest, sign + 1, Len(rest))) THEN Rejected
        ELSE [ok |-> TRUE, year |-> date.year, month |-> date.month, day |-> date.day,
              hour |-> time.hour, minute |-> time.minute, second |-> time.second]

Pad2(n) == <<DigitChar(n \div 10), DigitChar(n % 10)>>

\* dt.strftime('%Y-%m-%d %H:%M:%S')
Strftime(dt) ==
    Pad2(dt.year \div 100) \o Pad2(dt.year % 100) \o <<"-">> \o Pad2(dt.month) \o <<"-">>
        \o Pad2(dt.day) \o <<" ">> \o Pad2(dt.hour) \o <<":">> \o Pad2(dt.minute)
        \o <<":">> \o Pad2(dt.second)

\* fecha_str.split('.')[0].replace('T', ' ')
Fallback_keep_T(fecha_str) ==
    LET dot == Find(fecha_str, ".", 1)
    IN  IF dot > 0 THEN SubSeq(fecha_str, 1, dot - 1) ELSE fecha_str
Fallback(fecha_str) ==
    LET dot == Find(fecha_str, ".", 1)
    IN  Replace(IF dot > 0 THEN SubSeq(fecha_str, 1, dot - 1) ELSE fecha_str, "T", <<" ">>)

convertir_fecha_albion(fecha_str, lenient) ==
    IF fecha_str.kind = "null" \/ fecha_str.s = <<>>
    THEN Null
    ELSE LET fecha_iso == Replace(fecha_str.s, "Z", <<"+", "0", "0", ":", "0", "0">>)
             dt == FromIso(fecha_iso, lenient)
         IN  IF dt.ok THEN Str(Strftime(dt)) ELSE Str(Fallback(fecha_str.s))

\* the texts the remote API can put in startTime and TimeStamp, by their parts

FechaInputs ==
    {Null, Str(<<>>), Str(<<"T", ".", "Z">>)} \cup
    {Str(d \o p \o t \o f \o z) :
        d \in {<<"2", "0", "2", "6", "-", "0", "2", "-", "2", "6">>, <<"2", "0", "2", "6", "-", "0", "2", "-", "3", "0">>},
        p \in {<<"T">>, <<" ">>},
        t \in {<<"0", "5", ":", "3", "8", ":", "1", "5">>, <<"2", "3", ":", "5", "9", ":", "6", "0">>},
        f \in {<<>>, <<".">>, <<".", "1", "0", "8">>, <<".", "1", "0", "8", "7", "7", "6", "6", "0", "0">>, <<".", "1", "0", "x">>},
        z \in {<<>>, <<"Z">>, <<"Z", "Z">>, <<"+", "0", "2", ":", "0", "0">>}}

CallConvertir ==
    /\ ret = NotCalled
    /\ \E lenient \in BOOLEAN : ret' = Returned(convertir_fecha_albion(arg, lenient))
    /\ UNCHANGED <<arg, res, rep, view>>
    /\ UNCHANGED scanVars
    /\ UNCHANGED cacheVars

(***************************************************************************)
(* BattleReportView._get_item_name (tasks/monitor.py) over get_item_data   *)
(* and get_localized_name (albion_api.py)                                  *)
(***************************************************************************)
Reporters == {"r1"}

MaxNameCalls == 2   \* _get_item_name calls made on their own in one behaviour

\* the characters of the item identifiers the tables can hold
CharsOf(item_type) ==
    CASE item_type = "T4_SWORD" -> <<"T", "4", "_", "S", "W", "O", "R", "D">>
      [] item_type = "T4_HEAD" -> <<"T", "4", "_", "H", "E", "A", "D">>
      [] item_type = "T4_CAPE@1" -> <<"T", "4", "_", "C", "A", "P", "E", "@", "1">>
      [] item_type = "T4_CAPE@-1" -> <<"T", "4", "_", "C", "A", "P", "E", "@", "-", "1">>

\* the bodies GET /items/{key}/data can answer with: the catalog object with
\* its localized names, without them, with localizedNames null, or {}
ItemBodies(key) ==
    { [uniqueName |-> key, localizedNames |-> Obj([l \in {"ES-ES"} |-> "es:" \o key])],
      [uniqueName |-> key],
      [uniqueName |-> key, localizedNames |-> Null],
      <<>> }

\* get_localized_name for idioma 'es'; raised stands for the AttributeError
\* of localized.get when localizedNames is null
get_localized_name(item_data) ==
    LET localized == Get(item_data, "localizedNames", Obj(<<>>))
        fallback == Get(item_data, "uniqueName", "Item sin nombre")
    IN  IF localized.kind # "dict" THEN [raised |-> TRUE, nombre |-> ""]
        ELSE [raised |-> FALSE, nombre |-> Get(localized.d, "ES-ES", fallback)]

\* {1: "Bueno", ...}.get(calidad, f"Calidad {calidad}")
QualityLabel(calidad) ==
    CASE calidad = 1 -> "Bueno" [] calidad = 2 -> "Excelente"
      [] calidad = 3 -> "Sobresaliente" [] calidad = 4 -> "Maestro"
      [] OTHER -> "Calidad " \o ToString(calidad)

\* `if enchant_level > 0`
HasEnchant_any(enchant_level) == enchant_level # 0
HasEnchant(enchant_level) == enchant_level > 0

\* the two suffixes _get_item_name appends
WithSuffixes(nombre, enchant_level, calidad) ==
    nombre \o (IF HasEnchant(enchant_level) THEN " ." \o ToString(enchant_level) ELSE "")
           \o (IF calidad > 0 THEN " (" \o QualityLabel(calidad) \o ")" ELSE "")

IdleName == [pc |-> "idle"]

\* _get_item_name has its name: the suffixes, then return
Named(r, cache, nombre) ==
    [res |-> [r EXCEPT !.pc = "done",
                       !.nombre = WithSuffixes(nombre, r.enchant_level, r.calidad)],
     cache |-> cache]

\* what a get_item_data call gave: the localized name of a truthy item_data
NameFrom(r, cache, item_data, otherwise) ==
    IF Truthy(item_data)
    THEN LET n == get_localized_name(item_data.json)
         IN  IF n.raised THEN [res |-> [r EXCEPT !.pc = "raised"], cache |-> cache]
             ELSE Named(r, cache, n.nombre)
    ELSE otherwise

\* get_item_data(key) entered at time t: answered from a fresh entry, or the
\* stale entry dropped and fetch_json awaited
Enter(r, cache, key, stage, t, answered(_)) ==
    LET entry == cache[key]
    IN  IF entry.present /\ IsFresh(entry, t)
        THEN answered(Cached(entry))
        ELSE [res |-> [r EXCEPT !.pc = stage, !.key = key, !.now = t,
                                !.lookups = Append(r.lookups, key)],
              cache |-> [cache EXCEPT ![key] = NoEntry]]

\* the call has what one more get_item_data returned
Saw(r, item_data) == [r EXCEPT !.got = Append(r.got, item_data)]

\* the fallback: get_item_data(item_type), the name or the raw identifier
FromFull(r, cache, item_data) ==
    NameFrom(Saw(r, item_data), cache, item_data,
             Named(Saw(r, item_data), cache, Join(r.item_type)))

ToFull(r, cache, t) ==
    LET answered(item_data) == FromFull([r EXCEPT !.tried = Append(r.tried, Join(r.item_type))],
                                        cache, item_data)
    IN  Enter([r EXCEPT !.tried = Append(r.tried, Join(r.item_type))],
              cache, Join(r.item_type), "full", t, answered)

\* `if item_data:` after get_item_data(base_type)
FromBase_no_fallback(r, cache, item_data, t) ==
    NameFrom(Saw(r, item_data), cache, item_data,
             Named(Saw(r, item_data), cache, Join(r.item_type)))
FromBase(r, cache, item_data, t) ==
    NameFrom(Saw(r, item_data), cache, item_data, ToFull(Saw(r, item_data), cache, t))

\* _get_item_name(item_type, calidad) up to its return or its first await
GetItemName(cache, item_type, calidad, t) ==
    LET p == parse_item_type(item_type)
        r == [pc |-> "start", item_type |-> item_type, calidad |-> calidad,
              base_type |-> p.base, enchant_level |-> p.enchant_level,
              key |-> "", now |-> t, began |-> t, nombre |-> "",
              tried |-> <<Join(p.base)>>, got |-> <<>>, lookups |-> <<>>]
        answered(item_data) == FromBase(r, cache, item_data, t)
    IN  Enter(r, cache, Join(p.base), "base", t, answered)

\* fetch_json answers the awaited get_item_data, which stores what it got
\* under the stamp it read on entry; _get_item_name goes on from there
ResumeName(r, cache, item_data, t) ==
    LET stored == [cache EXCEPT ![r.key] = NewEntry(item_data, r.now)]
    IN  IF r.pc = "base" THEN FromBase(r, stored, item_data, t)
        ELSE FromFull(r, stored, item_data)

\* the (item_type, calidad) pairs of the rows whose names are asked for
NameCalls == {<<"T4_SWORD", 0>>, <<"T4_CAPE@1", 2>>, <<"T4_CAPE@-1", 7>>}

\* a report callback asks for the name of an item
CallGetItemName(c, item_type, calidad) ==
    /\ rep[c].pc = "idle"
    /\ res[c].pc \in {"idle", "done", "raised"}
    /\ lookups < MaxNameCalls
    /\ lookups' = lookups + 1
    /\ LET o == GetItemName(item_cache, CharsOf(item_type), calidad, now)
       IN  /\ res' = [res EXCEPT ![c] = o.res]
           /\ item_cache' = o.cache
    /\ UNCHANGED <<now, call, advances, lastMiss, quietMiss>>
    /\ UNCHANGED <<arg, ret, rep, view>>
    /\ UNCHANGED scanVars

\* fetch_json answers the get_item_data call that c awaits
ResumeLookup(c) ==
    /\ CanRun(c)
    /\ res[c].pc \in {"base", "full"}
    /\ \E status \in Statuses, body \in ItemBodies(res[c].key) :
        LET o == ResumeName(res[c], item_cache, FetchJson(status, body), now)
        IN  /\ res' = [res EXCEPT ![c] = o.res]
            /\ item_cache' = o.cache
            /\ running' = IF rep[c].pc = "idle" \/ o.res.pc \in {"base", "full"}
                          THEN NoTask ELSE c
    /\ UNCHANGED <<now, call, lookups, advances, lastMiss, quietMiss>>
    /\ UNCHANGED <<arg, ret, rep, view>>
    /\ UNCHANGED <<batallas, muertes, items_perdidos, mon, failures, invocations, finished,
                   notified, sent>>

(***************************************************************************)
(* The reads of the report callbacks (database.py)                         *)
(***************************************************************************)
\* SELECT * FROM muertes WHERE battle_id = %s
obtener_muertes_por_batalla_any(battle_id) == muertes
obtener_muertes_por_batalla(battle_id) ==
    LET OfBattle(m) == m.battle_id = battle_id
    IN  SelectSeq(muertes, OfBattle)

\* SELECT * FROM items_perdidos WHERE muerte_id = %s
obtener_items_por_muerte(muerte_id) ==
    LET OfDeath(ip) == ip.muerte_id = muerte_id
    IN  SelectSeq(items_perdidos, OfDeath)

\* FROM items_perdidos ip JOIN muertes m ON ip.muerte_id = m.id
\* WHERE m.battle_id = %s
Joined_all_battles(battle_id) == items_perdidos
Joined(battle_id) ==
    LET OfBattle(ip) ==
            \E k \in 1..Len(muertes) :
                muertes[k].id = ip.muerte_id /\ muertes[k].battle_id = battle_id
    IN  SelectSeq(items_perdidos, OfBattle)

\* GROUP BY ip.item_type, ip.calidad with SUM(ip.cantidad): the rows are added
\* one by one to the group of their item_type and calidad
RECURSIVE GroupBy(_, _)
GroupBy(groups, rows) ==
    IF rows = <<>> THEN groups
    ELSE LET ip == Head(rows)
             Same(k) == groups[k].item_type = ip.item_type /\ groups[k].calidad = ip.calidad
         IN  IF \E k \in 1..Len(groups) : Same(k)
             THEN GroupBy([k \in 1..Len(groups) |->
                              IF Same(k)
                              THEN [groups[k] EXCEPT !.total_cantidad = @ + ip.cantidad]
                              ELSE groups[k]],
                          Tail(rows))
             ELSE GroupBy(Append(groups, [item_type |-> ip.item_type, calidad |-> ip.calidad,
                                          total_cantidad |-> ip.cantidad]),
                          Tail(rows))

obtener_items_agrupados_por_batalla(battle_id) == GroupBy(<<>>, Joined(battle_id))

MaxItemRows == 3    \* rows of items_perdidos when the aggregation is studied

\* the deaths of two battles and the rows items_perdidos can hold for them
StoredDeaths ==
    << [id |-> 1, battle_id |-> 1, event_index |-> 0, player_albion_id |-> "p1",
        player_name |-> "Bob", guild_id_albion |-> "G1"],
       [id |-> 2, battle_id |-> 1, event_index |-> 3, player_albion_id |-> "p3",
        player_name |-> "Ann", guild_id_albion |-> "G1"],
       [id |-> 3, battle_id |-> 2, event_index |-> 0, player_albion_id |-> "p2",
        player_name |-> "Eve", guild_id_albion |-> "G2"] >>

StoredItem(muerte_id, item_type, calidad, cantidad) ==
    [muerte_id |-> muerte_id, slot |-> "MainHand", item_type |-> item_type,
     calidad |-> calidad, cantidad |-> cantidad]

StoredItems ==
    { StoredItem(1, "T4_SWORD", 1, 3), StoredItem(2, "T4_SWORD", 1, 2),
      StoredItem(2, "T4_CAPE@1", 2, 1), StoredItem(1, "T4_SWORD", 2, 1),
      StoredItem(3, "T4_SWORD", 1, 2), StoredItem(3, "T4_CAPE@1", 0, 1),
      StoredItem(1, "T4_SWORD", 1, 1), StoredItem(2, "T4_CAPE@1", 0, 2) }

CallAggregate ==
    /\ ret = NotCalled
    /\ ret' = Returned(obtener_items_agrupados_por_batalla(arg))
    /\ UNCHANGED <<arg, res, rep, view>>
    /\ UNCHANGED scanVars
    /\ UNCHANGED cacheVars

(***************************************************************************)
(* PaginatedReportView (tasks/monitor.py)                                  *)
(***************************************************************************)
NoView == [present |-> FALSE]

\* `timeout: float = 180.0`, handed to discord.ui.View: seconds without an
\* interaction after which the library stops dispatching the view's buttons
timeout == 180

\* update_buttons
update_buttons_stale(v) == v
update_buttons(v) ==
    [v EXCEPT !.first_disabled = (v.current_page = 0),
              !.prev_disabled = (v.current_page = 0),
              !.next_disabled = (v.current_page = v.n_pages - 1),
              !.last_disabled = (v.current_page = v.n_pages - 1)]

\* __init__(pages): n_pages is len(self.pages)
NewView(n_pages) ==
    update_buttons([present |-> TRUE, n_pages |-> n_pages, current_page |-> 0,
                    pressed |-> "none", from |-> 0, footer |-> 0, error |-> FALSE,
                    idle |-> 0, expired |-> FALSE,
                    first_disabled |-> FALSE, prev_disabled |-> FALSE,
                    next_disabled |-> FALSE, last_disabled |-> FALSE])

\* show_page up to its await of edit_message: self.pages[self.current_page]
\* (an IndexError outside -len..len-1), the footer, update_buttons
show_page(v) ==
    IF v.current_page >= 0 - v.n_pages /\ v.current_page <= v.n_pages - 1
    THEN update_buttons([v EXCEPT !.footer = v.current_page + 1])
    ELSE [v EXCEPT !.error = TRUE]

\* `if self.current_page < len(self.pages) - 1: self.current_page += 1`
NextIndex_unguarded(v) == v.current_page + 1
NextIndex(v) == IF v.current_page < v.n_pages - 1 THEN v.current_page + 1 ELSE v.current_page

\* `if self.current_page > 0: self.current_page -= 1`
PrevIndex(v) == IF v.current_page > 0 THEN v.current_page - 1 ELSE v.current_page

\* one of the four buttons is pressed: its callback up to the await
Navigate(c, button) ==
    /\ running = NoTask
    /\ view[c].present
    /\ ~view[c].expired
    /\ LET v == view[c]
           target == CASE button = "first" -> 0
                       [] button = "prev" -> PrevIndex(v)
                       [] button = "next" -> NextIndex(v)
                       [] button = "last" -> v.n_pages - 1
       IN  view' = [view EXCEPT ![c] =
                      show_page([v EXCEPT !.current_page = target, !.pressed = button,
                                           !.from = v.current_page, !.idle = 0])]
    /\ UNCHANGED <<arg, ret, res, rep>>
    /\ UNCHANGED scanVars
    /\ UNCHANGED cacheVars

\* the view went `timeout` seconds without an interaction: the library calls
\* on_timeout, which PaginatedReportView does not define, and drops the view
ViewExpires(c) ==
    /\ running = NoTask
    /\ view[c].present
    /\ ~view[c].expired
    /\ view' = [view EXCEPT ![c] = [@ EXCEPT !.idle = timeout, !.expired = TRUE]]
    /\ UNCHANGED <<arg, ret, res, rep>>
    /\ UNCHANGED scanVars
    /\ UNCHANGED cacheVars

first_page(c) == Navigate(c, "first")
prev_page(c) == Navigate(c, "prev")
next_page(c) == Navigate(c, "next")
last_page(c) == Navigate(c, "last")

(***************************************************************************)
(* BattleReportView.individual_report and summary_report (tasks/monitor.py)*)
(***************************************************************************)
MAX_FIELDS_PER_PAGE == 10
MAX_LINES_PER_PAGE == 20

ReportKinds == {"individual", "summary"}

\* the locals of a report callback that has just been entered
NewReport(kind, battle_id) ==
    [pc |-> "deferring", kind |-> kind, battle_id |-> battle_id,
     rows |-> <<>>, k |-> 0, items |-> <<>>, j |-> 0, item_lines |-> <<>>,
     pages |-> <<>>, current |-> <<>>, field_count |-> 0,
     reply |-> "none", replies |-> <<>>, raised |-> FALSE, why |-> "none"]

\* `if field_count >= MAX_FIELDS_PER_PAGE`, `if len(current_lines) >= MAX_LINES_PER_PAGE`
PageFull_late(count, max) == count > max
PageFull(count, max) == count >= max

\* the field of one death goes to the current embed, a full embed to pages
AddField(r, field) ==
    LET full == PageFull(r.field_count, MAX_FIELDS_PER_PAGE)
    IN  [r EXCEPT !.pages = IF full THEN Append(@, r.current) ELSE @,
                  !.current = Append(IF full THEN <<>> ELSE @, field),
                  !.field_count = (IF full THEN 0 ELSE @) + 1]

\* the line of one group goes to current_lines, a full list to pages
AddLine(r, line) ==
    LET full == PageFull(Len(r.current), MAX_LINES_PER_PAGE)
    IN  [r EXCEPT !.pages = IF full THEN Append(@, r.current) ELSE @,
                  !.current = Append(IF full THEN <<>> ELSE @, line)]

\* an exception inside the try: the except clause sends the error reply
OnRaise_escape(r, why) == [r EXCEPT !.pc = "escaped", !.raised = TRUE, !.why = why]
OnRaise(r, why) == [r EXCEPT !.pc = "send_error", !.raised = TRUE, !.why = why]

\* the followup.send that r awaits next
Reply(r, reply) == [r EXCEPT !.pc = "sending", !.reply = reply]

\* after the loop: the last page, then the reply by the number of pages
\* (summary_report reads pages[0] of whatever pages it has)
Finish(r) ==
    LET last == IF r.kind = "individual" THEN r.field_count > 0 ELSE r.current # <<>>
        pages == IF last THEN Append(r.pages, r.current) ELSE r.pages
        closed == [r EXCEPT !.pages = pages]
    IN  IF pages = <<>>
        THEN IF r.kind = "individual" THEN Reply(closed, "no_data")
             ELSE OnRaise(closed, "index")
        ELSE Reply(closed, IF Len(pages) = 1 THEN "embed" ELSE "paginated")

\* f"• {nombre} x{cantidad}"
ItemLine(nombre, cantidad) == "* " \o nombre \o " x" \o ToString(cantidad)

\* the state of c's callback becomes r; it keeps the loop iff it did not await
Goes(c, r, keeps) ==
    /\ rep' = [rep EXCEPT ![c] = r]
    /\ running' = IF keeps THEN c ELSE NoTask
    /\ UNCHANGED <<arg, ret, view>>
    /\ UNCHANGED <<batallas, muertes, items_perdidos, mon, invocations, finished,
                   notified, sent>>
    /\ UNCHANGED <<now, call, lookups, advances, lastMiss, quietMiss>>

\* `await self._get_item_name(item['item_type'], item['calidad'])` is entered
AskName(c, r, item) ==
    LET o == GetItemName(item_cache, CharsOf(item.item_type), item.calidad, now)
    IN  /\ res' = [res EXCEPT ![c] = o.res]
        /\ item_cache' = o.cache
        /\ Goes(c, [r EXCEPT !.pc = "naming"], o.res.pc \notin {"base", "full"})

\* a report button of the notification of battle_id is pressed: the callback
\* runs to `await interaction.response.defer`
Press(c, kind, battle_id) ==
    /\ running = NoTask
    /\ rep[c].pc = "idle"
    /\ res[c].pc = "idle"
    /\ Goes(c, NewReport(kind, battle_id), FALSE)
    /\ UNCHANGED <<res, item_cache, failures>>

\* the button pressed is one of a notification the channel accepted
PressButton(c, kind, battle_id) ==
    /\ \E k \in 1..Len(sent) : sent[k].battle_id = battle_id
    /\ Press(c, kind, battle_id)

\* defer answers: it raises outside the try, or the callback reads its rows
Deferred(c) ==
    /\ CanRun(c)
    /\ rep[c].pc = "deferring"
    /\ \E ok \in BOOLEAN, raises \in DbRaises :
        LET r == rep[c]
            rows == IF r.kind = "individual" THEN obtener_muertes_por_batalla(r.battle_id)
                    ELSE obtener_items_agrupados_por_batalla(r.battle_id)
        IN  IF ~ok
            THEN /\ ~raises
                 /\ Goes(c, [r EXCEPT !.pc = "escaped"], FALSE)
                 /\ UNCHANGED failures
            ELSE /\ failures' = failures + (IF raises THEN 1 ELSE 0)
                 /\ IF raises THEN Goes(c, OnRaise(r, "read"), FALSE)
                    ELSE IF rows = <<>>
                    THEN Goes(c, Reply(r, IF r.kind = "individual" THEN "no_deaths"
                                          ELSE "no_items"), FALSE)
                    ELSE Goes(c, [r EXCEPT !.pc = "row", !.rows = rows, !.k = 1], TRUE)
    /\ UNCHANGED <<res, item_cache>>

\* the head of `for muerte in muertes` / `for item in items_agrupados`
ForRow(c) ==
    /\ CanRun(c)
    /\ rep[c].pc = "row"
    /\ LET r == rep[c]
       IN  IF r.k > Len(r.rows)
           THEN /\ Goes(c, Finish(r), FALSE)
                /\ UNCHANGED <<res, item_cache, failures>>
           ELSE IF r.kind = "summary"
           THEN /\ AskName(c, r, r.rows[r.k])
                /\ UNCHANGED failures
           ELSE \E raises \in DbRaises :
                /\ failures' = failures + (IF raises THEN 1 ELSE 0)
                /\ IF raises THEN Goes(c, OnRaise(r, "read"), FALSE)
                   ELSE Goes(c, [r EXCEPT !.pc = "item",
                                          !.items = obtener_items_por_muerte(r.rows[r.k].id),
                                          !.j = 1, !.item_lines = <<>>], TRUE)
                /\ UNCHANGED <<res, item_cache>>

\* the head of `for item in items`, and the field of the death after it
ForItem(c) ==
    /\ CanRun(c)
    /\ rep[c].pc = "item"
    /\ LET r == rep[c]
           muerte == r.rows[r.k]
           value == IF r.item_lines # <<>> THEN r.item_lines ELSE <<"Sin items registrados">>
           field == [key |-> muerte.id, name |-> muerte.player_name, value |-> value]
       IN  IF r.j > Len(r.items)
           THEN /\ Goes(c, [AddField(r, field) EXCEPT !.pc = "row", !.k = r.k + 1], TRUE)
                /\ UNCHANGED <<res, item_cache>>
           ELSE AskName(c, r, r.items[r.j])
    /\ UNCHANGED failures

\* _get_item_name returned or raised
NameReturned(c) ==
    /\ CanRun(c)
    /\ rep[c].pc = "naming"
    /\ res[c].pc \in {"done", "raised"}
    /\ res' = [res EXCEPT ![c] = IdleName]
    /\ LET r == rep[c]
           nombre == res[c].nombre
       IN  IF res[c].pc = "raised" THEN Goes(c, OnRaise(r, "name"), FALSE)
           ELSE IF r.kind = "individual"
           THEN Goes(c, [r EXCEPT !.pc = "item", !.j = r.j + 1,
                                  !.item_lines = Append(@, ItemLine(nombre, r.items[r.j].cantidad))],
                     TRUE)
           ELSE Goes(c, [AddLine(r, [key |-> <<r.rows[r.k].item_type, r.rows[r.k].calidad>>,
                                     text |-> ItemLine(nombre, r.rows[r.k].total_cantidad)])
                           EXCEPT !.pc = "row", !.k = r.k + 1],
                     TRUE)
    /\ UNCHANGED <<item_cache, failures>>

\* the followup.send of the report (or of its no-data text) answers
ReportSent(c) ==
    /\ CanRun(c)
    /\ rep[c].pc = "sending"
    /\ \E ok \in BOOLEAN :
        LET r == rep[c]
        IN  IF ok
            THEN /\ rep' = [rep EXCEPT ![c] = [r EXCEPT !.pc = "done",
                                                        !.replies = Append(@, r.reply)]]
                 /\ view' = IF r.reply = "paginated"
                            THEN [view EXCEPT ![c] = NewView(Len(r.pages))]
                            ELSE view
            ELSE /\ rep' = [rep EXCEPT ![c] = OnRaise(r, "send")]
                 /\ UNCHANGED view
    /\ running' = NoTask
    /\ UNCHANGED <<arg, ret, res>>
    /\ UNCHANGED <<batallas, muertes, items_perdidos, mon, failures, invocations, finished,
                   notified, sent>>
    /\ UNCHANGED cacheVars

\* the followup.send of the except clause answers; its failure leaves the callback
ErrorSent(c) ==
    /\ CanRun(c)
    /\ rep[c].pc = "send_error"
    /\ \E ok \in BOOLEAN :
        Goes(c, IF ok THEN [rep[c] EXCEPT !.pc = "done", !.replies = Append(@, "error")]
                ELSE [rep[c] EXCEPT !.pc = "escaped", !.why = "error_reply"], FALSE)
    /\ UNCHANGED <<res, item_cache, failures>>

MaxRows == 21   \* deaths of the reported battle

\* the rows of a battle with n deaths, and of one more battle
ReportDeaths(n) ==
    [k \in 1..(n + 1) |->
        [id |-> k, battle_id |-> IF k <= n THEN 1 ELSE 2, event_index |-> k - 1,
         player_albion_id |-> "p" \o ToString(k), player_name |-> "Player" \o ToString(k),
         guild_id_albion |-> "G1"]]

\* n items of n kinds for them (the second death lost none, the first the
\* second's share), and one of the other battle
ReportItems(n) ==
    [k \in 1..(n + 1) |->
        IF k <= n THEN StoredItem(IF k = 2 THEN 1 ELSE k, "T4_CAPE@1", k - 1, k)
        ELSE StoredItem(k, "T4_SWORD", 0, 1)]

\* no report callback is running and no function is under study
InitReport ==
    /\ arg = NoArg
    /\ ret = NotCalled
    /\ res = [c \in Callers |-> IdleName]
    /\ rep = [c \in Callers |-> [pc |-> "idle"]]
    /\ view = [c \in Callers |-> NoView]

(***************************************************************************)
(* Specifications                                                          *)
(***************************************************************************)
InitTables ==
    /\ batallas = <<>>
    /\ muertes = <<>>
    /\ items_perdidos = <<>>
    /\ running = NoTask
    /\ failures = 0
    /\ invocations = [b \in BattleIds |-> 0]
    /\ finished = {}
    /\ notified = <<>>
    /\ sent = <<>>

\* on_ready fired once: one Monitor, whose loop runs its ticks in sequence
InitScan ==
    /\ InitTables
    /\ mon = [m \in Monitors |-> Idle(IF m = "m1" THEN MaxTicks ELSE 0)]

\* on_ready fired twice (a reconnect): two Monitors, each ticking for as long
\* as the bot runs, that interleave at their awaits
InitOverlap ==
    /\ InitTables
    /\ mon = [m \in Monitors |-> Idle(Forever)]
    /\ InitCache
    /\ InitReport

MonitorStep(m) ==
    \/ StartTick(m)
    \/ RecvBattles(m)
    \/ LoopBattle(m)
    \/ ProcessBattle(m)
    \/ RecvEvents(m)
    \/ ProcessEvent(m)
    \/ ProcessItem(m)
    \/ RecvChannel(m)
    \/ RecvSend(m)

NextScan == \E m \in Monitors : MonitorStep(m)

Init == InitScan /\ InitCache /\ InitReport

Next == NextScan

Spec == Init /\ [][Next]_vars

SpecOverlap == InitOverlap /\ [][Next]_vars

\* the event loop resumes every coroutine whose awaited call has answered
FairOverlap == SpecOverlap /\ \A m \in Monitors : WF_vars(MonitorStep(m))

\* the report callbacks looking item types up, the scan at rest
SpecCache == Init /\ [][NextCache]_vars

\* names asked for one after the other while time passes
NextName ==
    \/ \E c \in Reporters, row \in NameCalls : CallGetItemName(c, row[1], row[2])
    \/ \E c \in Reporters : ResumeLookup(c)
    \/ Advance

SpecName == Init /\ [][NextName]_vars

\* a report button of battle 1 is pressed once the battle has n deaths
InitReportView ==
    /\ \E n \in 0..MaxRows :
        /\ muertes = ReportDeaths(n)
        /\ items_perdidos = ReportItems(n)
    /\ batallas = <<[battle_id |-> 1], [battle_id |-> 2]>>
    /\ running = NoTask
    /\ failures = 0
    /\ invocations = [b \in BattleIds |-> 1]
    /\ finished = {}
    /\ notified = <<>>
    /\ sent = <<>>
    /\ mon = [m \in Monitors |-> Idle(0)]
    /\ InitCache
    /\ InitReport

NextReport ==
    \/ \E c \in Reporters, kind \in ReportKinds : Press(c, kind, 1)
    \/ \E c \in Reporters : Deferred(c)
    \/ \E c \in Reporters : ForRow(c)
    \/ \E c \in Reporters : ForItem(c)
    \/ \E c \in Reporters : NameReturned(c)
    \/ \E c \in Reporters : ResumeLookup(c)
    \/ \E c \in Reporters : ReportSent(c)
    \/ \E c \in Reporters : ErrorSent(c)
    \/ \E c \in Reporters : first_page(c)
    \/ \E c \in Reporters : prev_page(c)
    \/ \E c \in Reporters : next_page(c)
    \/ \E c \in Reporters : last_page(c)
    \/ \E c \in Reporters : ViewExpires(c)

SpecReport == InitReportView /\ [][NextReport]_vars

MaxLiveTicks == 1   \* ticks of the Monitor while report buttons are pressed

\* the Monitor ticks while the buttons of delivered notifications are pressed
InitLive ==
    /\ InitTables
    /\ mon = [m \in Monitors |-> Idle(IF m = "m1" THEN MaxLiveTicks ELSE 0)]
    /\ InitCache
    /\ InitReport

NextLive ==
    \/ NextScan
    \/ \E c \in Reporters, kind \in ReportKinds, b \in BattleIds : PressButton(c, kind, b)
    \/ \E c \in Reporters : Deferred(c)
    \/ \E c \in Reporters : ForRow(c)
    \/ \E c \in Reporters : ForItem(c)
    \/ \E c \in Reporters : NameReturned(c)
    \/ \E c \in Reporters : ResumeLookup(c)
    \/ \E c \in Reporters : ReportSent(c)
    \/ \E c \in Reporters : ErrorSent(c)

SpecLive == InitLive /\ [][NextLive]_vars

\* obtener_items_agrupados_por_batalla called for either battle over every
\* content of items_perdidos up to MaxItemRows rows
InitAggregate ==
    /\ batallas = <<[battle_id |-> 1], [battle_id |-> 2]>>
    /\ muertes = StoredDeaths
    /\ items_perdidos \in UNION {[1..n -> StoredItems] : n \in 0..MaxItemRows}
    /\ running = NoTask
    /\ failures = 0
    /\ invocations = [b \in BattleIds |-> 1]
    /\ finished = {}
    /\ notified = <<>>
    /\ sent = <<>>
    /\ mon = [m \in Monitors |-> Idle(0)]
    /\ InitCache
    /\ arg \in BattleIds
    /\ ret = NotCalled
    /\ res = [c \in Callers |-> IdleName]
    /\ rep = [c \in Callers |-> [pc |-> "idle"]]
    /\ view = [c \in Callers |-> NoView]

NextAggregate == CallAggregate

SpecAggregate == InitAggregate /\ [][NextAggregate]_vars

\* parse_item_type called with every identifier up to MaxIdent characters
InitParse ==
    /\ InitScan
    /\ InitCache
    /\ arg \in Texts(ParseAlphabet, MaxIdent)
    /\ ret = NotCalled
    /\ res = [c \in Callers |-> IdleName]
    /\ rep = [c \in Callers |-> [pc |-> "idle"]]
    /\ view = [c \in Callers |-> NoView]

\* convertir_fecha_albion called with every text of FechaInputs
InitFecha ==
    /\ InitScan
    /\ InitCache
    /\ arg \in FechaInputs
    /\ ret = NotCalled
    /\ res = [c \in Callers |-> IdleName]
    /\ rep = [c \in Callers |-> [pc |-> "idle"]]
    /\ view = [c \in Callers |-> NoView]

NextFecha == CallConvertir

SpecFecha == InitFecha /\ [][NextFecha]_vars

NextParse == CallParse

SpecParse == InitParse /\ [][NextParse]_vars

(***************************************************************************)
(* Properties of the scan                                                  *)
(***************************************************************************)
RowCount(b) == Cardinality({k \in 1..Len(batallas) : batallas[k].battle_id = b})

NotificationCount(b) == Cardinality({k \in 1..Len(notified) : notified[k].battle_id = b})

\* m is between a passed batalla_ya_procesada check of b and registrar_batalla
PassedCheck(m, b) ==
    /\ mon[m].pc = "process_battle"
    /\ CurBattle(mon[m]).id = b

\* m, in its for loop, has gone past the page entry before the current one,
\* which carried battle id b
WentPast(m, b) ==
    /\ mon[m].pc = "loop"
    /\ mon[m].i > 1
    /\ "id" \in DOMAIN mon[m].page[mon[m].i - 1]
    /\ mon[m].page[mon[m].i - 1].id = b

\* C1 as amended: once a Battle row exists for a battle id, no step invokes
\* process_battle for that id again, and no battle id is notified twice.
C1_NoReinvocation ==
    [][\A b \in BattleIds :
          /\ RowCount(b) > 0 => invocations'[b] = invocations[b]
          /\ NotificationCount(b)' <= 1]_vars

\* a second tick went past a battle id whose row the first tick inserted
C1_Witness ==
    \E b \in BattleIds :
        /\ mon["m1"].ticksLeft < MaxTicks - 1
        /\ WentPast("m1", b)
        /\ RowCount(b) = 1
        /\ invocations[b] = 1

\* C1 as stated: a passed check means no row, and each battle id gets at most
\* one process_battle invocation and at most one notification.
C1_AtMostOneInvocation ==
    \A b \in BattleIds :
        /\ (\E m \in Monitors : PassedCheck(m, b)) => RowCount(b) = 0
        /\ invocations[b] <= 1
        /\ NotificationCount(b) <= 1

\* C2: with ticks that run one after the other, no battle id has two Battle
\* rows.
C2_OneRowPerBattle == \A b \in BattleIds : RowCount(b) <= 1

\* in the second tick, the second guild's page held the stored battle twice
\* and the loop went past both entries
C2_Witness ==
    /\ mon["m1"].ticksLeft < MaxTicks - 1
    /\ mon["m1"].g = 2
    /\ mon["m1"].page = <<Battle(1), Battle(1)>>
    /\ mon["m1"].i = 3
    /\ RowCount(1) = 1

\* C3 as amended: with two overlapping ticks, never have both passed the
\* check of one battle id with its insert still ahead, and no battle id ever
\* has two Battle rows.
C3_NoDuplicateRace ==
    \A b \in BattleIds :
        /\ \A m, n \in Monitors : PassedCheck(m, b) /\ PassedCheck(n, b) => m = n
        /\ RowCount(b) < 2
        /\ (\E m \in Monitors : PassedCheck(m, b)) => running # NoTask

\* one tick is suspended in get_battle_events of battle 1 while the other
\* tick, overlapping it, went past battle 1 in its own page
C3_Witness ==
    \E m, n \in Monitors :
        /\ m # n
        /\ mon[m].pc = "await_events"
        /\ CurBattle(mon[m]).id = 1
        /\ WentPast(n, 1)
        /\ invocations[1] = 1

\* C3 as stated: the overlapping ticks get to two Battle rows for one id.
C3_RaceReached == <>(\E b \in BattleIds : RowCount(b) >= 2)

\* C4 as stated: when a tick whose guild list was read has ended, every
\* active guild was handled and every battle of every page it got was reached.
C4_FailureIsolation ==
    \A m \in Monitors :
        (mon[m].pc = "idle" /\ mon[m].listed) =>
            /\ mon[m].visited = 1..Len(GREMIOS)
            /\ \A p \in mon[m].fetched : \A i \in 1..p[2] : <<p[1], i>> \in mon[m].reached

\* the positions (from 0) of the events of battle b whose victim is of guild
MatchingIndexes(b, guild) ==
    LET log == EventLog(b)
        Matches(k) == "Victim" \in DOMAIN log[k + 1] /\ log[k + 1].Victim.GuildId = guild
    IN  SelectSeq([k \in 1..Len(log) |-> k - 1], Matches)

\* the guild-relevant deaths in the event log an invocation got
Found(r) == IF r.gotEvents THEN Len(MatchingIndexes(r.battle_id, r.guild)) ELSE 0

\* C5 as amended: a process_battle invocation enters the Notification
\* Dispatcher iff it went through its event log without a raised call and the
\* log holds at least one guild-relevant death.
C5_NotifyIffDeaths ==
    \A r \in finished : r.dispatched <=> (r.completed /\ Found(r) > 0)

\* one battle was notified and another, without guild deaths, was not
C5_Witness ==
    /\ \E r \in finished : r.dispatched /\ Found(r) > 0
    /\ \E r \in finished : r.gotEvents /\ r.completed /\ Found(r) = 0 /\ ~r.dispatched

\* C5 as stated: the dispatcher is entered iff the event log holds a
\* guild-relevant death.
C5_NotifyIffDeathsInLog ==
    \A r \in finished : r.dispatched <=> Found(r) > 0

DeathRows(b) ==
    LET OfBattle(d) == d.battle_id = b
    IN  SelectSeq(muertes, OfBattle)

DeathsAsLogged(r) ==
    LET rows == DeathRows(r.battle_id)
        want == MatchingIndexes(r.battle_id, r.guild)
    IN  /\ [k \in 1..Len(rows) |-> rows[k].event_index] = want
        /\ \A k \in 1..Len(rows) : rows[k].guild_id_albion = r.guild
        /\ r.muertes_gremio = Len(want)
        /\ \A k \in 1..Len(notified) :
              notified[k].battle_id = r.battle_id => notified[k].num_muertes = Len(rows)

ItemRows(muerte_id) ==
    LET OfDeath(it) == it.muerte_id = muerte_id
    IN  SelectSeq(items_perdidos, OfDeath)

\* the LostItem rows the equipment of death row d calls for
ExpectedItems(d) ==
    LET v == EventLog(d.battle_id)[d.event_index + 1].Victim
        eq == IF "Equipment" \in DOMAIN v THEN v.Equipment ELSE <<>>
        Carries(e) ==
            /\ e[2].kind = "dict"
            /\ "Type" \in DOMAIN e[2].d
            /\ e[2].d.Type # ""
        Row(e) ==
            [muerte_id |-> d.id, slot |-> e[1], item_type |-> e[2].d.Type,
             calidad |-> IF "Quality" \in DOMAIN e[2].d THEN e[2].d.Quality ELSE 0,
             cantidad |-> IF "Count" \in DOMAIN e[2].d THEN e[2].d.Count ELSE 1]
        kept == SelectSeq(eq, Carries)
    IN  [k \in 1..Len(kept) |-> Row(kept[k])]

IsPrefix(s, t) == Len(s) <= Len(t) /\ s = SubSeq(t, 1, Len(s))

\* the invocations that fetched the events of death row d's battle
InvocationsOf(d) == {r \in finished : r.battle_id = d.battle_id /\ r.gotEvents}

\* C7 as amended: once process_battle has returned, a Death row has one
\* LostItem row per slot that carries a non-empty Type, in slot order, linked
\* to its id, with quality 0 and quantity 1 by default, when no call raised;
\* when one raised, the Death has the rows inserted before it.
C7_ItemPerSlot ==
    /\ \A k \in 1..Len(items_perdidos) : items_perdidos[k].muerte_id \in 1..Len(muertes)
    /\ \A k \in 1..Len(muertes) : \A r \in InvocationsOf(muertes[k]) :
          /\ muertes[k].id = k
          /\ IsPrefix(ItemRows(k), ExpectedItems(muertes[k]))
          /\ r.completed => ItemRows(k) = ExpectedItems(muertes[k])

\* Bob's death has its sword and, with the defaults, its helmet; Eve's death
\* has only the cape
C7_Witness ==
    \E j, k \in 1..Len(muertes) :
        /\ muertes[j].player_name = "Bob" /\ muertes[k].player_name = "Eve"
        /\ \A d \in {muertes[j], muertes[k]} : \E r \in InvocationsOf(d) : r.completed
        /\ Len(ItemRows(j)) = 2 /\ Len(ItemRows(k)) = 1
        /\ \E it \in {ItemRows(j)[2]} : it.calidad = 0 /\ it.cantidad = 1

\* C7 as stated: once process_battle has returned, every Death row has one
\* LostItem row per slot that carries a non-empty Type.
C7_ItemPerSlotAlways ==
    \A k \in 1..Len(muertes) : \A r \in InvocationsOf(muertes[k]) :
        ItemRows(k) = ExpectedItems(muertes[k])

(***************************************************************************)
(* Properties of parse_item_type                                           *)
(***************************************************************************)
RECURSIVE Pow10(_)
Pow10(n) == IF n = 0 THEN 1 ELSE 10 * Pow10(n - 1)

\* the integers a text of that many characters can denote
Denotable(text) == (0 - Pow10(Len(text)))..Pow10(Len(text))

\* the text is the decimal numeral of n
Denotes(text, n) == Join(text) = ToString(n)

\* C20: parse_item_type returns as base the text before the first '@' (the
\* whole identifier when there is none) and as enchant level the integer the
\* text after it denotes, 0 when there is no such text or it denotes none.
C20_ParseItemType ==
    ret.called =>
        LET ats == {k \in 1..Len(arg) : arg[k] = "@"}
        IN  IF ats = {}
            THEN ret.value.base = arg /\ ret.value.enchant_level = 0
            ELSE LET first == CHOOSE k \in ats : \A j \in ats : k <= j
                     after == [k \in 1..(Len(arg) - first) |-> arg[first + k]]
                 IN  /\ ret.value.base = [k \in 1..(first - 1) |-> arg[k]]
                     /\ IF \E n \in Denotable(after) : Denotes(after, n)
                        THEN Denotes(after, ret.value.enchant_level)
                        ELSE ret.value.enchant_level = 0

\* "A@12" was parsed into base "A" and enchant level 12
C20_Witness ==
    /\ arg = <<"A", "@", "1", "2">>
    /\ ret.called
    /\ ret.value = [base |-> <<"A">>, enchant_level |-> 12]

\* C21 as stated: the enchant level parse_item_type returns is never
\* negative, whatever the identifier.
C21_EnchantNonNegative ==
    ret.called => ret.value.enchant_level >= 0

(***************************************************************************)
(* Properties of convertir_fecha_albion                                    *)
(***************************************************************************)
\* the text is an ISO-8601 instant with a trailing Z:
\* YYYY-MM-DDTHH:MM:SS[.fraction]Z, a calendar date, seconds up to maxSecond
IsIsoZ(chars, maxSecond) ==
    /\ Len(chars) >= 20
    /\ chars[Len(chars)] = "Z"
    /\ chars[5] = "-" /\ chars[8] = "-" /\ chars[11] = "T"
    /\ chars[14] = ":" /\ chars[17] = ":"
    /\ \A k \in (1..19) \ {5, 8, 11, 14, 17} : chars[k] \in DigitChars
    /\ Field(chars, 6, 2) \in 1..12
    /\ Field(chars, 9, 2) \in 1..DaysIn(Field(chars, 1, 4), Field(chars, 6, 2))
    /\ Field(chars, 12, 2) <= 23
    /\ Field(chars, 15, 2) <= 59
    /\ Field(chars, 18, 2) <= maxSecond
    /\ Len(chars) > 20 =>
          /\ chars[20] = "." /\ Len(chars) > 21
          /\ \A k \in 21..(Len(chars) - 1) : chars[k] \in DigitChars

\* 'YYYY-MM-DD HH:MM:SS' with the date and time the text starts with
DateAndTime(chars) == [k \in 1..19 |-> IF k = 11 THEN " " ELSE chars[k]]

\* the text cut at its first '.', every 'T' turned into a space
CutAndSpaced(chars) ==
    LET dots == {k \in 1..Len(chars) : chars[k] = "."}
        n == IF dots = {} THEN Len(chars)
             ELSE (CHOOSE k \in dots : \A j \in dots : k <= j) - 1
    IN  [k \in 1..n |-> IF chars[k] = "T" THEN " " ELSE chars[k]]

ParserRejects(chars) ==
    \A lenient \in BOOLEAN :
        ~FromIso(Replace(chars, "Z", <<"+", "0", "0", ":", "0", "0">>), lenient).ok

\* what C19 says of a call, an ISO-8601 instant having seconds up to maxSecond
FechaAsClaimed(maxSecond) ==
    ret.called =>
        IF arg.kind = "null" \/ arg.s = <<>>
        THEN ret.value = Null
        ELSE /\ ret.value.kind = "str"
             /\ IsIsoZ(arg.s, maxSecond) => ret.value.s = DateAndTime(arg.s)
             /\ ParserRejects(arg.s) => ret.value.s = CutAndSpaced(arg.s)

NameIn(item_data) == get_localized_name(item_data.json).nombre

\* the name before the suffixes, by what the lookups of the call yielded
CoreName(r) ==
    IF Truthy(r.got[1]) THEN NameIn(r.got[1])
    ELSE IF Truthy(r.got[2]) THEN NameIn(r.got[2])
    ELSE Join(r.item_type)

EnchantSuffix(r) == IF r.enchant_level > 0 THEN " ." \o ToString(r.enchant_level) ELSE ""

QualitySuffix(r) ==
    IF r.calidad <= 0 THEN ""
    ELSE IF r.calidad = 1 THEN " (Bueno)"
    ELSE IF r.calidad = 2 THEN " (Excelente)"
    ELSE IF r.calidad = 3 THEN " (Sobresaliente)"
    ELSE IF r.calidad = 4 THEN " (Maestro)"
    ELSE " (Calidad " \o ToString(r.calidad) \o ")"

\* C14: a returned _get_item_name call looked the parsed base type up first
\* and the full identifier only when that yielded nothing; its name is what
\* the first lookup with a result carried, the raw identifier when both
\* yielded nothing, followed by the enchant suffix iff enchant_level > 0 and
\* by the quality label iff calidad > 0.
C14_NameResolution ==
    \A c \in Reporters :
        LET r == res[c]
        IN  r.pc = "done" =>
              /\ r.tried[1] = Join(r.base_type)
              /\ Len(r.got) = Len(r.tried)
              /\ IF Truthy(r.got[1])
                 THEN Len(r.tried) = 1
                 ELSE Len(r.tried) = 2 /\ r.tried[2] = Join(r.item_type)
              /\ r.nombre = CoreName(r) \o EnchantSuffix(r) \o QualitySuffix(r)

\* the base type T4_CAPE yielded nothing and the full identifier its
\* localized name, which got both suffixes
C14_Witness ==
    \E c \in Reporters :
        /\ res[c].pc = "done"
        /\ res[c].tried = <<"T4_CAPE", "T4_CAPE@1">>
        /\ ~Truthy(res[c].got[1])
        /\ res[c].nombre = "es:T4_CAPE@1 .1 (Excelente)"

\* C27: a _get_item_name call makes at most 2 remote catalog lookups, the
\* second never for the key of the first; for an identifier without '@'
\* whose base lookup gave nothing, the fallback get_item_data is answered by
\* the entry that lookup stored, so the call makes 1 remote lookup (the
\* remote answer arriving, as any HTTP answer does, within the 24h of the
\* entry's stamp).
C27_RemoteLookups ==
    \A c \in Reporters :
        LET r == res[c]
        IN  r.pc # "idle" =>
              /\ Len(r.lookups) <= 2
              /\ Len(r.lookups) = 2 => r.lookups[1] # r.lookups[2] \/ r.now - r.began >= CACHE_DURATION
              /\ (r.base_type = r.item_type /\ r.now - r.began < CACHE_DURATION) =>
                    /\ Len(r.lookups) <= 1
                    /\ (r.pc = "done" /\ Len(r.got) = 2 /\ Len(r.lookups) = 1 /\ ~r.got[1].some)
                          => r.got[2] = None /\ r.nombre = CoreName(r) \o QualitySuffix(r)

\* T4_SWORD was not found remotely; the fallback got None from the cache and
\* the call returned the raw identifier after one remote lookup
C27_Witness ==
    \E c \in Reporters :
        /\ res[c].pc = "done"
        /\ res[c].tried = <<"T4_SWORD", "T4_SWORD">>
        /\ res[c].got = <<None, None>>
        /\ res[c].lookups = <<"T4_SWORD">>
        /\ res[c].nombre = "T4_SWORD"

(***************************************************************************)
(* Properties of obtener_items_agrupados_por_batalla                       *)
(***************************************************************************)
\* the positions of the LostItem rows of the deaths of battle b
LostIn(b) ==
    {k \in 1..Len(items_perdidos) :
        \E d \in 1..Len(muertes) :
            muertes[d].battle_id = b /\ muertes[d].id = items_perdidos[k].muerte_id}

RECURSIVE Quantity(_)
\* the sum of the quantities of the rows at a set of positions
Quantity(positions) ==
    IF positions = {} THEN 0
    ELSE LET k == CHOOSE p \in positions : TRUE
         IN  items_perdidos[k].cantidad + Quantity(positions \ {k})

\* C15: obtener_items_agrupados_por_batalla returns one row per distinct
\* (item_type, calidad) among the LostItem rows of the battle's deaths, its
\* total_cantidad the sum of their quantities, and no other row.
C15_Aggregation ==
    ret.called =>
        LET rows == ret.value
            pairs == {<<items_perdidos[k].item_type, items_perdidos[k].calidad>> : k \in LostIn(arg)}
        IN  /\ Len(rows) = Cardinality(pairs)
            /\ {<<rows[k].item_type, rows[k].calidad>> : k \in 1..Len(rows)} = pairs
            /\ \A k \in 1..Len(rows) :
                  rows[k].total_cantidad =
                      Quantity({p \in LostIn(arg) :
                                  /\ items_perdidos[p].item_type = rows[k].item_type
                                  /\ items_perdidos[p].calidad = rows[k].calidad})

\* the rows (A,q1,3), (A,q1,2), (B,q2,1) of battle 1 gave (A,q1,5), (B,q2,1)
C15_Witness ==
    /\ arg = 1
    /\ items_perdidos = << StoredItem(1, "T4_SWORD", 1, 3), StoredItem(2, "T4_SWORD", 1, 2),
                           StoredItem(2, "T4_CAPE@1", 2, 1) >>
    /\ ret.called
    /\ ret.value = << [item_type |-> "T4_SWORD", calidad |-> 1, total_cantidad |-> 5],
                      [item_type |-> "T4_CAPE@1", calidad |-> 2, total_cantidad |-> 1] >>

\* the step is m's send_battle_notification failing to deliver: no channel is
\* configured, fetch_channel did not give the channel, or channel.send failed
DeliveryFails(m) ==
    \/ /\ mon[m].pc = "events"
       /\ notified' # notified
       /\ mon'[m].pc # "await_channel"
    \/ /\ mon[m].pc = "await_channel"
       /\ mon'[m] # mon[m]
       /\ mon'[m].pc # "await_send"
    \/ /\ mon[m].pc = "await_send"
       /\ mon'[m] # mon[m]
       /\ sent' = sent

\* C13: when a notification is not delivered (no channel configured, the
\* channel lookup or the send failing), the tick is back in the guild's for
\* loop at the next battle of the same page, the Battle, Death and LostItem
\* rows are unchanged, and no battle is ever notified a second time.
C13_DeliveryFailureSwallowed ==
    [][\A m \in Monitors :
          /\ DeliveryFails(m) =>
                /\ mon'[m].pc = "loop"
                /\ mon'[m].i = mon[m].i + 1
                /\ mon'[m].g = mon[m].g
                /\ mon'[m].page = mon[m].page
                /\ mon'[m].ticksLeft = mon[m].ticksLeft
                /\ UNCHANGED <<batallas, muertes, items_perdidos>>
          /\ \A b \in BattleIds : NotificationCount(b)' <= 1]_vars

\* in one tick the notification of battle 1 was not delivered to the first
\* guild's channel, and the second guild's battle 2 was processed after it
C13_Witness ==
    /\ mon["m1"].ticksLeft = MaxTicks - 1
    /\ sent = <<>>
    /\ Len(notified) = 2
    /\ notified[1].battle_id = 1 /\ notified[1].guild = "G1"
    /\ notified[2].battle_id = 2 /\ notified[2].guild = "G2"
    /\ batallas = <<[battle_id |-> 1], [battle_id |-> 2]>>
    /\ \E k \in 1..Len(muertes) : muertes[k].battle_id = 2

\* m is inside process_battle
InBattle(l) ==
    l.pc \in {"process_battle", "await_events", "events", "items", "await_channel",
              "await_send"}

\* C16: within a tick the guilds are taken one by one in their order, the
\* next one only when no battle of the previous one is under process; the
\* battles of a guild's page are gone through in the page's order, one at a
\* time; and the Death rows of one battle are stored in increasing
\* event_index.
C16_TickOrder ==
    [][/\ \A m \in Monitors :
            LET l == mon[m]
                n == mon'[m]
            IN  /\ n.g # l.g =>
                      /\ ~InBattle(l)
                      /\ n.g = l.g + 1 \/ n.g = 0
                /\ (n.g = l.g /\ l.page # <<>>) =>
                      /\ n.page = l.page
                      /\ n.i = l.i \/ n.i = l.i + 1
                /\ n.i # l.i => ~InBattle(n)
                /\ InBattle(n) =>
                      /\ n.i \in 1..Len(n.page)
                      /\ \A k \in 1..n.i : <<n.g, k>> \in n.reached
       /\ \A j, k \in 1..Len(muertes') :
            (j < k /\ muertes'[j].battle_id = muertes'[k].battle_id) =>
                muertes'[j].event_index < muertes'[k].event_index]_vars

\* the tick went through a page of two battles for the first guild, stored
\* the deaths of events 0 and 3 of battle 1, and is at the second guild
C16_Witness ==
    /\ mon["m1"].g = 2
    /\ <<1, 2>> \in mon["m1"].reached
    /\ \E j, k \in 1..Len(muertes) :
          /\ j < k
          /\ muertes[j].battle_id = 1 /\ muertes[j].event_index = 0
          /\ muertes[k].battle_id = 1 /\ muertes[k].event_index = 3

\* m is in the process_battle invocation of b, past registrar_batalla
Working(m, b) ==
    /\ mon[m].pc \in {"await_events", "events", "items", "await_channel", "await_send"}
    /\ CurBattle(mon[m]).id = b

\* the Death rows of battle b, and the LostItem rows of those deaths
DeathsOf(b) == SelectSeq(muertes, LAMBDA d : d.battle_id = b)

ItemsOf(b) ==
    SelectSeq(items_perdidos,
              LAMBDA ip : \E k \in 1..Len(muertes) :
                              muertes[k].id = ip.muerte_id /\ muertes[k].battle_id = b)

\* C23: the events of a battle are only awaited by the step that inserted
\* its Battle row, for a battle that had none; no Death or LostItem row of a
\* battle is stored before its Battle row; and once the row exists and the
\* invocation that inserted it is over (also when it got no events or was
\* ended by a failing insert), nothing awaits the battle's events or adds a
\* Death or LostItem row for it again.
C23_RowClosesBattle ==
    [][\A b \in BattleIds :
          /\ \A m \in Monitors :
                (Working(m, b)' /\ ~Working(m, b)) =>
                    /\ RowCount(b) = 0
                    /\ batallas' = Append(batallas, [battle_id |-> b])
                    /\ mon'[m].pc = "await_events"
          /\ (RowCount(b) = 0 \/ ~\E m \in Monitors : Working(m, b)) =>
                /\ DeathsOf(b)' = DeathsOf(b)
                /\ ItemsOf(b)' = ItemsOf(b)
          /\ (RowCount(b) > 0 /\ ~\E m \in Monitors : Working(m, b)) =>
                ~\E m \in Monitors : Working(m, b)']_vars

\* the first tick stored a battle's row and got no events for it; the second
\* tick went past the battle, which still has no Death row
C23_Witness ==
    \E b \in BattleIds :
        /\ mon["m1"].ticksLeft < MaxTicks - 1
        /\ WentPast("m1", b)
        /\ RowCount(b) = 1
        /\ DeathsOf(b) = <<>>
        /\ \E o \in finished : o.battle_id = b /\ ~o.gotEvents /\ o.completed
        /\ \A o \in finished : o.battle_id = b => ~o.gotEvents

Delivered(b) == \E k \in 1..Len(sent) : sent[k].battle_id = b

\* the tables hold, for the guild b was notified for, one Death row per
\* guild-relevant event of b's log and every LostItem row each calls for
Complete(b) ==
    \E n \in 1..Len(notified) :
        /\ notified[n].battle_id = b
        /\ [k \in 1..Len(DeathRows(b)) |-> DeathRows(b)[k].event_index]
              = MatchingIndexes(b, notified[n].guild)
        /\ \A k \in 1..Len(DeathRows(b)) :
              ItemRows(DeathRows(b)[k].id) = ExpectedItems(DeathRows(b)[k])

\* the callback has read its rows
HasRead(r) == r.pc \in {"row", "item", "naming", "sending"} \/ (r.pc = "done" /\ ~r.raised)

\* what a callback holds of the tables is what the tables hold
ReadsTables(r) ==
    /\ (r.kind = "individual" /\ HasRead(r)) => r.rows = DeathsOf(r.battle_id)
    /\ (r.kind = "individual" /\ r.pc \in {"item", "naming"}) =>
          r.items = ItemRows(r.rows[r.k].id)
    /\ (r.kind = "summary" /\ HasRead(r)) => r.rows = GroupBy(<<>>, ItemsOf(r.battle_id))
    /\ HasRead(r) => r.rows # <<>> /\ r.reply \notin {"no_deaths", "no_items", "no_data"}

ReportsRead ==
    \A c \in Reporters :
        rep[c].pc # "idle" => Delivered(rep[c].battle_id) /\ ReadsTables(rep[c])

\* C25: while a tick stores the deaths and items of a battle it holds the
\* event loop; once the battle's notification is delivered the battle's
\* Death and LostItem rows are complete and no step changes them; and what a
\* report callback of the battle has read, at whatever point of the tick it
\* runs, is those rows.
C25_ReportReadsFinalRows ==
    [][/\ \A m \in Monitors : mon'[m].pc \in {"events", "items"} => running' = m
       /\ \A b \in BattleIds :
            Delivered(b) =>
                /\ Complete(b)
                /\ DeathsOf(b)' = DeathsOf(b)
                /\ ItemsOf(b)' = ItemsOf(b)
       /\ ReportsRead']_vars

\* the per-player report of battle 1 was delivered with its two deaths while
\* the tick was waiting for the events of battle 2
C25_Witness ==
    \E c \in Reporters :
        /\ rep[c].pc = "done"
        /\ rep[c].kind = "individual"
        /\ rep[c].battle_id = 1
        /\ Len(rep[c].rows) = 2
        /\ rep[c].replies = <<"embed">>
        /\ mon["m1"].pc = "await_events"
        /\ CurBattle(mon["m1"]).id = 2

(***************************************************************************)
(* Properties of the report callbacks and of the paginated view            *)
(***************************************************************************)
RECURSIVE Flatten(_)
Flatten(pages) == IF pages = <<>> THEN <<>> ELSE Head(pages) \o Flatten(Tail(pages))

Ceil(n, m) == (n + m - 1) \div m

Min(a, b) == IF a <= b THEN a ELSE b

Max(a, b) == IF a >= b THEN a ELSE b

\* the page maximum of the report and what identifies its k-th input row
PageMax(r) == IF r.kind = "individual" THEN 10 ELSE 20

RowKey(r, k) ==
    IF r.kind = "individual" THEN r.rows[k].id
    ELSE <<r.rows[k].item_type, r.rows[k].calidad>>

\* the callback built its pages without an exception and is at, or past, the
\* send of its reply
Built(r) == r.pc = "sending" \/ (r.pc = "done" /\ ~r.raised)

\* C11: a report built from N >= 1 rows has exactly ceil(N/M) pages, none
\* empty, none over M rows (M = 10 fields per player page, 20 lines per
\* summary page), and the pages in order hold the rows in their input order;
\* from N = 0 rows no page is built and the reply is the no-data text.
C11_Pagination ==
    \A c \in Reporters :
        LET r == rep[c]
            n == Len(r.rows)
            all == Flatten(r.pages)
        IN  (r.pc # "idle" /\ Built(r)) =>
                /\ Len(r.pages) = Ceil(n, PageMax(r))
                /\ \A p \in 1..Len(r.pages) :
                      Len(r.pages[p]) >= 1 /\ Len(r.pages[p]) <= PageMax(r)
                /\ Len(all) = n
                /\ \A k \in 1..n : all[k].key = RowKey(r, k)
                /\ n = 0 => r.pages = <<>> /\ r.reply \in {"no_deaths", "no_items"}
                /\ n >= 1 => r.reply = (IF Len(r.pages) = 1 THEN "embed" ELSE "paginated")

\* the per-player report of 21 deaths was delivered in three pages
C11_Witness ==
    \E c \in Reporters :
        /\ rep[c].pc = "done"
        /\ rep[c].kind = "individual"
        /\ Len(rep[c].rows) = 21
        /\ Len(rep[c].pages) = 3
        /\ Len(rep[c].pages[3]) = 1
        /\ rep[c].replies = <<"paginated">>

\* C12: a paginated view always has 0 <= current_page <= len(pages) - 1 and
\* no button callback raised; first sets current_page to 0, prev to
\* max(0, current - 1), next to min(last, current + 1), last to the last index.
C12_NavigationClamped ==
    \A c \in Reporters :
        LET v == view[c]
            last == v.n_pages - 1
        IN  v.present =>
                /\ ~v.error
                /\ 0 <= v.current_page /\ v.current_page <= last
                /\ v.pressed = "none" => v.current_page = 0
                /\ v.pressed = "first" => v.current_page = 0
                /\ v.pressed = "prev" => v.current_page = Max(0, v.from - 1)
                /\ v.pressed = "next" => v.current_page = Min(last, v.from + 1)
                /\ v.pressed = "last" => v.current_page = last
                /\ v.pressed # "none" => v.footer = v.current_page + 1

\* next was pressed on the last of three pages
C12_Witness ==
    \E c \in Reporters :
        /\ view[c].present
        /\ view[c].n_pages = 3
        /\ view[c].pressed = "next"
        /\ view[c].from = 2
        /\ view[c].current_page = 2
        /\ ~view[c].error

\* C22 as stated: once a paginated view has gone its 180 s without an
\* interaction its four navigation controls are disabled, and from then on
\* current_page does not change and no button callback raises.
C22_ExpiredViewDisabled ==
    [][\A c \in Reporters :
          LET v == view[c]
              w == view'[c]
          IN  (w.present /\ w.expired) =>
                /\ w.idle >= 180
                /\ w.first_disabled /\ w.prev_disabled
                /\ w.next_disabled /\ w.last_disabled
                /\ ~w.error
                /\ (v.present /\ v.expired) => w.current_page = v.current_page]_vars

\* C26: a paginated view exists only for a report of at least 2 pages (a
\* delivered one-page report has no view), and at every moment of its life
\* first and prev are disabled iff current_page = 0, next and last iff
\* current_page = len(pages) - 1.
C26_ViewButtons ==
    \A c \in Reporters :
        LET v == view[c]
            r == rep[c]
        IN  /\ v.present =>
                  /\ v.n_pages >= 2
                  /\ r.pc = "done" /\ r.replies = <<"paginated">>
                  /\ v.n_pages = Len(r.pages)
                  /\ v.first_disabled <=> v.current_page = 0
                  /\ v.prev_disabled <=> v.current_page = 0
                  /\ v.next_disabled <=> v.current_page = v.n_pages - 1
                  /\ v.last_disabled <=> v.current_page = v.n_pages - 1
            /\ (r.pc = "done" /\ r.replies = <<"embed">>) =>
                  Len(r.pages) = 1 /\ ~v.present

\* on a view of two pages, last was pressed: only first and prev are enabled
C26_Witness ==
    \E c \in Reporters :
        /\ view[c].present
        /\ view[c].n_pages = 2
        /\ view[c].pressed = "last"
        /\ view[c].current_page = 1
        /\ view[c].next_disabled /\ view[c].last_disabled
        /\ ~view[c].first_disabled /\ ~view[c].prev_disabled

AnsweredNone(c) ==
    /\ call[c].pc = "returned"
    /\ ~call[c].remote
    /\ ~call[c].result.some

C9_TransientNotCached ==
    [][\A c \in Callers :
          (call[c].pc = "inflight" /\ call'[c].pc = "returned"
              /\ call'[c].status \notin {200, 404})
          => item_cache' = item_cache]_vars

\* C10: a lookup that finds an entry younger than 24h returns what the entry
\* holds, without a remote call and without touching the cache; a lookup that
\* finds an entry of 24h or more drops it and calls the remote, and when the
\* call answers, an entry stamped with the time the lookup read is stored.
C10_CacheFreshness ==
    [][\A c \in Callers :
          LET k == call'[c].item_type
              e == item_cache[k]
          IN  /\ (Resting(c) /\ call'[c] # call[c] /\ e.present) =>
                    IF now - e.timestamp < CACHE_DURATION
                    THEN /\ call'[c].pc = "returned"
                         /\ ~call'[c].remote
                         /\ call'[c].result = (IF e.not_found THEN None ELSE e.data)
                         /\ item_cache' = item_cache
                    ELSE /\ call'[c].pc = "inflight"
                         /\ call'[c].remote
                         /\ call'[c].saw = "stale"
                         /\ ~item_cache'[k].present
              /\ (call[c].pc = "inflight" /\ call'[c].pc = "returned" /\ call[c].saw = "stale") =>
                    /\ item_cache'[k].present
                    /\ item_cache'[k].timestamp = call[c].now]_vars

\* one lookup was answered from an entry 23 hours old, another found it 24
\* hours old and stored a new one
C10_Witness ==
    \E c, d \in Callers : \E k \in ItemTypes :
        /\ call[c].item_type = k /\ call[d].item_type = k
        /\ call[c].saw = "fresh" /\ call[c].now = CACHE_DURATION - 1
        /\ call[c].pc = "returned" /\ call[c].result.some
        /\ call[d].saw = "stale" /\ call[d].now = CACHE_DURATION
        /\ call[d].pc = "returned"
        /\ item_cache[k].timestamp = CACHE_DURATION

\* C17 as stated: of the lookups of one base type, at most one per 24h
\* window calls the remote catalog: two lookups of the same type that both
\* called it began 24h or more apart, however they interleave.
C17_SingleFlight ==
    \A c, d \in Callers :
        (/\ c # d
         /\ call[c].pc # "idle" /\ call[d].pc # "idle"
         /\ call[c].item_type = call[d].item_type
         /\ call[c].remote /\ call[d].remote
         /\ call[c].now <= call[d].now)
        => call[d].now - call[c].now >= CACHE_DURATION

====
